---- MODULE Spec2Model ----
(***************************************************************************)
(* Model of the libmqtt asynchronous client (src/util.go): the packet-id   *)
(* allocator (idGenerator), the public API (Publish / Subscribe /          *)
(* UnSubscribe), the per-connection send pump (handleSend) and the logic   *)
(* loop (logic).                                                           *)
(*                                                                         *)
(* Two specifications share the allocator state:                           *)
(*   SpecIdGen  concurrent callers of idGenerator.next / free, one atomic  *)
(*              operation of sync/atomic or sync.Map per step;             *)
(*   Spec       one open session: an application goroutine, the send pump, *)
(*              the logic loop, the router consumer and a broker that may  *)
(*              send any packet;                                           *)
(*   SpecLife   the life cycle of a client with one supervisor per server: *)
(*              Connect, Wait, Destroy, the connect attempt, the fibers of *)
(*              each session and the two levels of cancellation;           *)
(*   SpecBackoff the supervisor's failure counter and reconnect delay,     *)
(*              with the connect attempt reduced to its outcome.           *)
(* FairSpecLife is SpecLife with weak fairness on every step of a fiber.   *)
(***************************************************************************)
EXTENDS Integers, Sequences, FiniteSets, TLC

(***************************************************************************)
(* Bounds.  The 16-bit id space is scaled down: IdMod stands for 1 << 16,  *)
(* so ids are 0 .. IdMod-1 and the 32-bit counter wraps at IdMod * IdMod   *)
(* (1 << 32 = (1 << 16) * (1 << 16)).                                      *)
(***************************************************************************)
IdMod == 3

NThreads == 2

MaxGenCalls == 4

MaxInputs == 3

MaxPreset == 1

MaxQosIn == 3

\* servers configured, each with its own supervisor and session
NServers == 2

\* inputs of the environment (broker packets, failures, timeouts) and API calls in SpecLife
MaxEnv == 2

\* cap on the failure counter in SpecBackoff
MaxFail == 7

\* the largest time.Duration; stands for 1 << 63 - 1
MaxDuration == 63

\* the options SpecBackoff starts from: firstDelay, backOffFactor, maxDelay
MaxFirstDelay == 3

MaxFactor == 2

MaxMaxDelay == 8

\* CONNACK return codes are 0 .. MaxCode; stands for the codes 0 .. 5
MaxCode == 2

\* options.keepalive is 4, 8, .. 4 * MaxKeepalive seconds
MaxKeepalive == 2

\* SpecKeepalive: the clock stops at MaxTime seconds
MaxTime == 12

(***************************************************************************)
(* Program constants.                                                      *)
(***************************************************************************)
Qos0 == 0

Qos1 == 1

Qos2 == 2

SendChanSize == 1

RecvChanSize == 1

CodeSuccess == 0

\* options.keepaliveFactor, 1.5 by default, as a fraction
KeepaliveFactorNum == 3

KeepaliveFactorDen == 2

MaxUint8 == 255

\* options.autoReconnect, as set by the application
AutoReconnect == TRUE

MinDuration == 0 - MaxDuration - 1

Servers == 1 .. NServers

MaxUint16 == IdMod - 1

CtrMod == IdMod * IdMod

Uint16(n) == n % IdMod

AddUint32(n) == (n + 1) % CtrMod

Ids == 0 .. MaxUint16

Threads == 1 .. NThreads

VARIABLES
    nextID,      \* idGenerator.nextID
    usedIDs,     \* idGenerator.usedIDs: a function from the ids present to their extra
    th,          \* SpecIdGen: per caller, the position and locals of its call of next
    nGenCalls,   \* SpecIdGen: calls of next started so far
    held,        \* SpecIdGen (history): per id, allocations returned and not freed since
    persist,     \* persistence store: a function from the keys present to the record
    sendCh,      \* AsyncClient.sendCh
    recvCh,      \* AsyncClient.recvCh
    appPc,       \* application goroutine: "idle", or "enqueue" (blocked in c.sendCh <- p)
    appPkt,      \* the packet the application goroutine is about to enqueue
    nCalls,      \* API calls started so far
    pumpPc,      \* handleSend: "select", "write" or "exit"
    pumpPkt,     \* the packet handleSend holds
    pumpSrc,     \* which channel it came from: "sendCh" or "logicSendC"
    logicPc,     \* logic: "recv", "forward", "send" or "post"
    logicPkt,    \* the packet logic is handling
    logicOut,    \* the packet logic is sending through c.send
    nBroker,     \* packets the broker has sent so far
    wrote,       \* history: per <<kind, id>>, packets written and flushed on the transport
    rcvd,        \* history: the packets the logic loop has received, in order
    inflight,    \* history: packets placed on sendCh whose terminal ack is not handled yet
    acked,       \* history: packets placed on sendCh whose terminal ack has been received
    delivered,   \* history: per <<qos, id>>, publishes dispatched by the router consumer
    conforming,  \* history: every packet the broker sent so far answers a packet written
    sent,        \* history: per <<kind, id>>, packets c.send has handed to the send pump
    notified,    \* history: per <<kind, id>>, events the logic loop gave to the event channel
    firstDelay,     \* options.firstDelay
    backOffFactor,  \* options.backOffFactor
    maxDelay,       \* options.maxDelay
    servers,        \* options.servers: the servers the client is configured with
    clientCtx,      \* AsyncClient.ctx: "live" or "cancelled"
    workers,        \* AsyncClient.workers: the WaitGroup counter
    connected,      \* Connect has been called
    waitPc,         \* the caller of Wait: "none", "blocked" or "returned"
    destroyPc,      \* the caller of Destroy: "none", "enqueue" (in c.sendCh <- DisConn), "done"
    topicPc,        \* handleTopicMsg: "none", "run" or "exit"
    msgPc,          \* handleMsg: "none", "run" or "exit"
    supPc,          \* per server, the position of connect (the supervisor)
    nfail,          \* per server, connect's failure counter
    delay,          \* per server, the reconnect delay last computed
    sessCtx,        \* per server, clientConn.ctx: "none", "live" or "cancelled"
    connOpen,       \* per server, the transport is open
    sendPc,         \* per server, handleSend: "none", "select", "write" or "exit"
    sendPkt,        \* per server, the packet handleSend holds
    recvPc,         \* per server, handleRecv: "none", "top", "decode", "fwd" or "exit"
    recvPkt,        \* per server, the packet handleRecv decoded
    netRecvC,       \* per server, c.netRecvC: "open" or "closed"
    keepaliveC,     \* per server, c.keepaliveC: "open" or "closed"
    supPkt,         \* per server, the packet connect holds (in waitForConnAck or logic)
    kaPc,           \* per server, keepalive: "none", "tick", "send", "wait" or "exit"
    nEnv,           \* inputs of the environment and API calls so far
    events,         \* history: per kind, the events emitted to the event channel
    connFirst,      \* history: per server, the first packet the current session decoded
    connResult,     \* history: per server, the last invocation of the ConnHandler
    waitRet,        \* history: "none"; "clean" or "dirty" once Wait has returned
    forced,         \* history: Destroy(true) has been called
    disWritten,     \* history: a DisConn packet has been written and flushed
    sendExit,       \* history: per server, why handleSend returned
    recvExit,       \* history: per server, why handleRecv returned
    keepalive,      \* options.keepalive, in seconds
    now,            \* SpecKeepalive: the time, in seconds
    tickerAt,       \* per server, keepalive: the time of the next tick of t
    timeoutTimerAt, \* per server, keepalive: the time timeoutTimer expires
    pingAt          \* history: per server, the time keepalive last sent a PingReq

genVars == <<nextID, usedIDs, th, nGenCalls, held>>

sessVars == <<persist, sendCh, recvCh, appPc, appPkt, nCalls, pumpPc, pumpPkt, pumpSrc,
              logicPc, logicPkt, logicOut, nBroker, wrote, rcvd, inflight, acked, delivered,
              conforming, sent, notified>>

vars == <<nextID, usedIDs, th, nGenCalls, held, persist, sendCh, recvCh, appPc, appPkt,
          nCalls, pumpPc, pumpPkt, pumpSrc, logicPc, logicPkt, logicOut, nBroker, wrote,
          rcvd, inflight, acked, delivered, conforming, sent, notified,
          firstDelay, backOffFactor, maxDelay, servers, clientCtx, workers, connected, waitPc,
          destroyPc, topicPc, msgPc, supPc, nfail, delay, sessCtx, connOpen, sendPc,
          sendPkt, recvPc, recvPkt, netRecvC, keepaliveC, supPkt, kaPc, nEnv, events, connFirst, connResult,
          waitRet, forced, disWritten, sendExit, recvExit, keepalive, now, tickerAt,
          timeoutTimerAt, pingAt>>

optVars == <<firstDelay, backOffFactor, maxDelay, servers, keepalive>>

timeVars == <<now, tickerAt, timeoutTimerAt, pingAt>>

lifeVars == <<clientCtx, workers, connected, waitPc, destroyPc, topicPc, msgPc, supPc,
              nfail, delay, sessCtx, connOpen, sendPc, sendPkt, recvPc, recvPkt, netRecvC,
              keepaliveC, supPkt, kaPc, nEnv, events, connFirst, connResult,
              waitRet, forced, disWritten, sendExit, recvExit>>

(***************************************************************************)
(* sync.Map operations on the side-table.                                  *)
(***************************************************************************)
Loaded(used, id) == id \in DOMAIN used

StoreIfAbsent(used, id, extra) == IF id \in DOMAIN used THEN used ELSE used @@ (id :> extra)

MapDelete(used, id) == [k \in DOMAIN used \ {id} |-> used[k]]

getExtra(id) == IF id \in DOMAIN usedIDs THEN <<usedIDs[id], TRUE>> ELSE <<0, FALSE>>

(***************************************************************************)
(* History counters: a function from the keys counted so far to their      *)
(* count.                                                                  *)
(***************************************************************************)
Cnt(b, k) == IF k \in DOMAIN b THEN b[k] ELSE 0

Inc(b, k) == IF k \in DOMAIN b THEN [b EXCEPT ![k] = @ + 1] ELSE b @@ (k :> 1)

(***************************************************************************)
(* idGenerator.next, one atomic operation per step (SpecIdGen).            *)
(* Positions of a caller: "idle", "store" (about to StoreUint32 1),        *)
(* "los" (about to do the first LoadOrStore), "body" (top of the loop      *)
(* body), "post" (the loop's post statement) and "ret" (the value to       *)
(* return is decided).                                                     *)
(***************************************************************************)
IdleThread == [pc |-> "idle", id |-> 0, i |-> 0, loaded |-> FALSE, extra |-> 0,
               ret |-> 0, freed |-> FALSE, full |-> FALSE]

Exhausted(used) == \A k \in 1 .. MaxUint16 : k \in DOMAIN used

\* id = uint16(atomic.AddUint32(&g.nextID, 1)); if id == 0 { ... }
NextAdd(t) ==
    /\ th[t].pc = "idle"
    /\ nGenCalls < MaxGenCalls
    /\ nGenCalls' = nGenCalls + 1
    /\ nextID' = AddUint32(nextID)
    /\ th' = [th EXCEPT ![t] = [IdleThread EXCEPT
                  !.pc = IF Uint16(nextID') = 0 THEN "store" ELSE "los",
                  !.id = Uint16(nextID'),
                  !.extra = nGenCalls',
                  !.full = Exhausted(usedIDs)]]
    /\ UNCHANGED <<usedIDs, held>>

\* atomic.StoreUint32(&g.nextID, 1); id = 1
NextStore(t) ==
    /\ th[t].pc = "store"
    /\ nextID' = 1
    /\ th' = [th EXCEPT ![t].pc = "los", ![t].id = 1]
    /\ UNCHANGED <<usedIDs, nGenCalls, held>>

\* _, loaded = g.usedIDs.LoadOrStore(id, extra); if loaded { for i := 0; loaded; ...
NextLoadOrStore(t) ==
    /\ th[t].pc = "los"
    /\ usedIDs' = StoreIfAbsent(usedIDs, th[t].id, th[t].extra)
    /\ th' = [th EXCEPT ![t].loaded = Loaded(usedIDs, th[t].id),
                        ![t].i = 0,
                        ![t].pc = IF Loaded(usedIDs, th[t].id) THEN "body" ELSE "ret",
                        ![t].ret = th[t].id]
    /\ UNCHANGED <<nextID, nGenCalls, held>>

\* loop body: if i == math.MaxUint16 { return 0 }; _, loaded = LoadOrStore(id, extra); i++
NextProbe(t) ==
    /\ th[t].pc = "body"
    /\ IF th[t].i = MaxUint16
       THEN /\ th' = [th EXCEPT ![t].pc = "ret", ![t].ret = 0]
            /\ UNCHANGED usedIDs
       ELSE /\ usedIDs' = StoreIfAbsent(usedIDs, th[t].id, th[t].extra)
            /\ th' = [th EXCEPT ![t].loaded = Loaded(usedIDs, th[t].id),
                                ![t].i = th[t].i + 1,
                                ![t].pc = "post"]
    /\ UNCHANGED <<nextID, nGenCalls, held>>

\* post statement: id = uint16(atomic.AddUint32(&g.nextID, 1)); then the condition
\* `loaded`: back to the body, or out of the loop to `return uint16(id)`
NextPost(t) ==
    /\ th[t].pc = "post"
    /\ nextID' = AddUint32(nextID)
    /\ th' = [th EXCEPT ![t].id = Uint16(nextID'),
                        ![t].pc = IF th[t].loaded THEN "body" ELSE "ret",
                        ![t].ret = Uint16(nextID')]
    /\ UNCHANGED <<usedIDs, nGenCalls, held>>

\* the call returns th[t].ret to its caller, who holds the id from now on
NextReturn(t) ==
    /\ th[t].pc = "ret"
    /\ held' = IF th[t].ret = 0 THEN held ELSE Inc(held, th[t].ret)
    /\ th' = [th EXCEPT ![t] = IdleThread]
    /\ UNCHANGED <<nextID, usedIDs, nGenCalls>>

\* g.usedIDs.Delete(id), called by the holder of an allocation
free(id) ==
    /\ Cnt(held, id) > 0
    /\ usedIDs' = MapDelete(usedIDs, id)
    /\ held' = MapDelete(held, id)
    /\ th' = [t \in Threads |->
                 IF th[t].pc = "idle" THEN th[t] ELSE [th[t] EXCEPT !.freed = TRUE]]
    /\ UNCHANGED <<nextID, nGenCalls>>

NextIdGen ==
    \/ \E t \in Threads : NextAdd(t) /\ UNCHANGED <<sessVars, optVars, lifeVars, timeVars>>
    \/ \E t \in Threads : NextStore(t) /\ UNCHANGED <<sessVars, optVars, lifeVars, timeVars>>
    \/ \E t \in Threads : NextLoadOrStore(t) /\ UNCHANGED <<sessVars, optVars, lifeVars, timeVars>>
    \/ \E t \in Threads : NextProbe(t) /\ UNCHANGED <<sessVars, optVars, lifeVars, timeVars>>
    \/ \E t \in Threads : NextPost(t) /\ UNCHANGED <<sessVars, optVars, lifeVars, timeVars>>
    \/ \E t \in Threads : NextReturn(t) /\ UNCHANGED <<sessVars, optVars, lifeVars, timeVars>>
    \/ \E id \in 1 .. MaxUint16 : free(id) /\ UNCHANGED <<sessVars, optVars, lifeVars, timeVars>>

(***************************************************************************)
(* idGenerator.next as one step, for a caller that runs it alone           *)
(* (Spec: one application goroutine).  Returns the counter, the side-table *)
(* and the id returned.                                                    *)
(***************************************************************************)
RECURSIVE Probe(_, _, _, _, _)
\* for i := 0; loaded; id = uint16(AddUint32(&g.nextID, 1)) { ... }, entered at the
\* body with loaded = true
Probe(ctr, used, id, i, extra) ==
    IF i = MaxUint16
    THEN [ctr |-> ctr, used |-> used, id |-> 0]
    ELSE IF Loaded(used, id)
         THEN Probe(AddUint32(ctr), used, Uint16(AddUint32(ctr)), i + 1, extra)
         ELSE [ctr |-> AddUint32(ctr), used |-> StoreIfAbsent(used, id, extra),
               id |-> Uint16(AddUint32(ctr))]

next(ctr, used, extra) ==
    LET wrapped == Uint16(AddUint32(ctr)) = 0
        c == IF wrapped THEN 1 ELSE AddUint32(ctr)
        id == IF wrapped THEN 1 ELSE Uint16(AddUint32(ctr))
    IN IF Loaded(used, id)
       THEN Probe(c, used, id, 0, extra)
       ELSE [ctr |-> c, used |-> StoreIfAbsent(used, id, extra), id |-> id]

(***************************************************************************)
(* Persistence keys and the persistence store.                             *)
(***************************************************************************)
RECURSIVE Decimal(_)
\* the %d verb: the decimal digits of n
Decimal(n) == IF n < 10 THEN <<n>> ELSE Decimal(n \div 10) \o <<n % 10>>

sendKey(packetID) == <<"S">> \o Decimal(packetID)

recvKey(packetID) == <<"R">> \o Decimal(packetID)

\* PersistMethod.Store and PersistMethod.Delete of a store that keeps what it is given
PersistStore(store, key, pkt) ==
    [k \in DOMAIN store \cup {key} |-> IF k = key THEN pkt ELSE store[k]]

PersistDelete(store, key) == [k \in DOMAIN store \ {key} |-> store[k]]

(***************************************************************************)
(* Packets.  n is the identity of a packet built by an API call (0 for the *)
(* others); pre is the PacketID the caller of Publish passed in.           *)
(***************************************************************************)
NoPkt == [kind |-> "None", qos |-> 0, id |-> 0, n |-> 0, pre |-> 0]

Pkt(kind, id) == [kind |-> kind, qos |-> 0, id |-> id, n |-> 0, pre |-> 0]

PubPkt(qos, id) == [kind |-> "Publish", qos |-> qos, id |-> id, n |-> 0, pre |-> 0]

\* what the side-table keeps of an origin: the packet (by identity), its type and QoS
Origin(p) == [kind |-> p.kind, qos |-> p.qos, n |-> p.n]

BrokerPkts ==
    {Pkt(k, id) : k \in {"SubAck", "UnSubAck", "PubAck", "PubRec", "PubRel", "PubComp"},
                  id \in 1 .. MaxUint16}
        \cup {PubPkt(q, id) : q \in Qos0 .. Qos2, id \in 1 .. MaxUint16}
        \cup {Pkt("ConnAck", 0)}

(***************************************************************************)
(* Public API: Publish, Subscribe, UnSubscribe (one application goroutine, *)
(* client token not cancelled).  Each call ends in c.sendCh <- p, which    *)
(* blocks while the channel is full.                                       *)
(***************************************************************************)
Publish(qos, pid) ==
    /\ appPc = "idle"
    /\ nCalls + nBroker < MaxInputs
    /\ LET q == IF qos > Qos2 THEN Qos2 ELSE qos
           alloc == q # Qos0 /\ pid = 0
           r == next(nextID, usedIDs, [kind |-> "Publish", qos |-> q, n |-> nCalls + 1])
           p == [kind |-> "Publish", qos |-> q, id |-> IF alloc THEN r.id ELSE pid,
                 n |-> nCalls + 1, pre |-> pid]
       IN /\ nextID' = IF alloc THEN r.ctr ELSE nextID
          /\ usedIDs' = IF alloc THEN r.used ELSE usedIDs
          /\ persist' = IF alloc THEN PersistStore(persist, sendKey(p.id), p) ELSE persist
          /\ appPkt' = p
    /\ appPc' = "enqueue"
    /\ nCalls' = nCalls + 1
    /\ UNCHANGED <<notified, sendCh, recvCh, pumpPc, pumpPkt, pumpSrc, logicPc, logicPkt, logicOut,
                   nBroker, wrote, rcvd, inflight, acked, delivered, sent, conforming>>

Request(kind) ==
    /\ appPc = "idle"
    /\ nCalls + nBroker < MaxInputs
    /\ LET r == next(nextID, usedIDs, [kind |-> kind, qos |-> 0, n |-> nCalls + 1])
       IN /\ nextID' = r.ctr
          /\ usedIDs' = r.used
          /\ appPkt' = [kind |-> kind, qos |-> 0, id |-> r.id, n |-> nCalls + 1, pre |-> 0]
    /\ appPc' = "enqueue"
    /\ nCalls' = nCalls + 1
    /\ UNCHANGED <<notified, persist, sendCh, recvCh, pumpPc, pumpPkt, pumpSrc, logicPc, logicPkt,
                   logicOut, nBroker, wrote, rcvd, inflight, acked, delivered, sent, conforming>>

Subscribe == Request("Subscribe")

UnSubscribe == Request("UnSub")

\* packets that open a flow the broker acknowledges
Tracked(p) == p.kind \in {"Subscribe", "UnSub"} \/ (p.kind = "Publish" /\ p.qos # Qos0)

\* c.sendCh <- p
SendChPut ==
    /\ appPc = "enqueue"
    /\ Len(sendCh) < SendChanSize
    /\ sendCh' = Append(sendCh, appPkt)
    /\ inflight' = IF Tracked(appPkt) THEN inflight \cup {appPkt} ELSE inflight
    /\ appPc' = "idle"
    /\ appPkt' = NoPkt
    /\ UNCHANGED <<notified, nextID, usedIDs, persist, recvCh, nCalls, pumpPc, pumpPkt, pumpSrc,
                   logicPc, logicPkt, logicOut, nBroker, wrote, rcvd, acked, delivered,
                   sent, conforming>>

(***************************************************************************)
(* clientConn.handleSend: the send pump.  It takes a packet from sendCh or *)
(* from logicSendC (unbuffered: a rendezvous with c.send in the logic      *)
(* loop), writes and flushes it, then applies the side effect of its type. *)
(***************************************************************************)
\* case pkt, more := <-c.parent.sendCh
PumpTakeSendCh ==
    /\ pumpPc = "select"
    /\ sendCh # <<>>
    /\ pumpPkt' = Head(sendCh)
    /\ sendCh' = Tail(sendCh)
    /\ pumpSrc' = "sendCh"
    /\ pumpPc' = "write"
    /\ UNCHANGED <<notified, nextID, usedIDs, persist, recvCh, appPc, appPkt, nCalls, logicPc,
                   logicPkt, logicOut, nBroker, wrote, rcvd, inflight, acked, delivered, sent, conforming>>

\* where the logic loop continues once c.send has handed its packet over
AfterSend(pkt) == IF pkt.kind = "PubRec" THEN "recv" ELSE "post"

\* case pkt, more := <-c.logicSendC, together with c.send's case c.logicSendC <- pkt
PumpTakeLogicSendC ==
    /\ pumpPc = "select"
    /\ logicPc = "send"
    /\ pumpPkt' = logicOut
    /\ pumpSrc' = "logicSendC"
    /\ pumpPc' = "write"
    /\ logicOut' = NoPkt
    /\ sent' = Inc(sent, <<logicOut.kind, logicOut.id>>)
    /\ logicPc' = AfterSend(logicPkt)
    /\ logicPkt' = IF AfterSend(logicPkt) = "recv" THEN NoPkt ELSE logicPkt
    /\ UNCHANGED <<notified, nextID, usedIDs, persist, sendCh, recvCh, appPc, appPkt, nCalls,
                   nBroker, wrote, rcvd, inflight, acked, delivered, conforming>>

\* the switch pkt.Type() after a successful write and flush
AfterWrite(store, src, pkt) ==
    IF src = "logicSendC"
    THEN CASE pkt.kind = "PubRel" -> PersistStore(store, sendKey(pkt.id), pkt)
           [] pkt.kind = "PubAck" -> PersistDelete(store, sendKey(pkt.id))
           [] pkt.kind = "PubComp" -> PersistDelete(store, sendKey(pkt.id))
           [] OTHER -> store
    ELSE store

\* pkt.WriteTo(c.connRW) and c.connRW.Flush() succeed
PumpWrite ==
    /\ pumpPc = "write"
    /\ wrote' = Inc(wrote, <<pumpPkt.kind, pumpPkt.qos, pumpPkt.id>>)
    /\ persist' = AfterWrite(persist, pumpSrc, pumpPkt)
    /\ pumpPc' = "select"
    /\ pumpPkt' = NoPkt
    /\ pumpSrc' = "none"
    /\ UNCHANGED <<notified, nextID, usedIDs, sendCh, recvCh, appPc, appPkt, nCalls, logicPc,
                   logicPkt, logicOut, nBroker, rcvd, inflight, acked, delivered, sent, conforming>>

\* pkt.WriteTo or Flush returns an error: handleSend returns
PumpWriteFail ==
    /\ pumpPc = "write"
    /\ pumpPc' = "exit"
    /\ pumpPkt' = NoPkt
    /\ pumpSrc' = "none"
    /\ UNCHANGED <<notified, nextID, usedIDs, persist, sendCh, recvCh, appPc, appPkt, nCalls,
                   logicPc, logicPkt, logicOut, nBroker, wrote, rcvd, inflight, acked,
                   delivered, sent, conforming>>

(***************************************************************************)
(* clientConn.logic: the logic loop.  The broker may send any packet; the  *)
(* receive pump hands each one over netRecvC (unbuffered).                 *)
(***************************************************************************)
\* if originPkt, ok := getExtra(id); ok { switch originPkt.(type) { case *kind: ... qos
OriginIsMut(id, kind, qos) ==
    /\ getExtra(id)[2]
    /\ getExtra(id)[1].kind = kind

OriginIs(id, kind, qos) ==
    /\ getExtra(id)[2]
    /\ getExtra(id)[1].kind = kind
    /\ getExtra(id)[1].qos = qos

\* the ack that ends the flow a packet opened
TerminalAck(p) ==
    CASE p.kind = "Subscribe" -> "SubAck"
      [] p.kind = "UnSub" -> "UnSubAck"
      [] p.kind = "Publish" /\ p.qos = Qos1 -> "PubAck"
      [] OTHER -> "PubComp"

\* the packet a handler passes to c.send, NoPkt if it sends nothing
ReplyMut(pkt) ==
    CASE pkt.kind = "Publish" /\ pkt.qos = Qos1 -> Pkt("PubAck", pkt.id)
      [] pkt.kind = "Publish" /\ pkt.qos = Qos2 -> Pkt("PubRec", pkt.id)
      [] pkt.kind = "PubRec" /\ OriginIs(pkt.id, "Publish", Qos2) -> Pkt("PubComp", pkt.id)
      [] pkt.kind = "PubRel" /\ OriginIs(pkt.id, "Publish", Qos2) -> Pkt("PubComp", pkt.id)
      [] pkt.kind = "PubComp" /\ OriginIs(pkt.id, "Publish", Qos2) -> Pkt("PubRel", pkt.id)
      [] OTHER -> NoPkt

Reply(pkt) ==
    CASE pkt.kind = "Publish" /\ pkt.qos = Qos1 -> Pkt("PubAck", pkt.id)
      [] pkt.kind = "Publish" /\ pkt.qos = Qos2 -> Pkt("PubRec", pkt.id)
      [] pkt.kind = "PubRec" /\ OriginIs(pkt.id, "Publish", Qos2) -> Pkt("PubRel", pkt.id)
      [] pkt.kind = "PubRel" /\ OriginIs(pkt.id, "Publish", Qos2) -> Pkt("PubComp", pkt.id)
      [] pkt.kind = "PubComp" /\ OriginIs(pkt.id, "Publish", Qos2) -> Pkt("PubRel", pkt.id)
      [] OTHER -> NoPkt

\* the event a handler gives to the event channel when it ends a flow: notifySubMsg,
\* notifyUnSubMsg, notifyPubMsg
Event(pkt) ==
    CASE pkt.kind = "SubAck" -> "sub"
      [] pkt.kind = "UnSubAck" -> "unsub"
      [] OTHER -> "pub"

\* SubAck, UnSubAck and PubAck free the id and delete S<id> without sending anything
FreesAtOnce(pkt) ==
    \/ pkt.kind = "SubAck" /\ OriginIs(pkt.id, "Subscribe", 0)
    \/ pkt.kind = "UnSubAck" /\ OriginIs(pkt.id, "UnSub", 0)
    \/ pkt.kind = "PubAck" /\ OriginIs(pkt.id, "Publish", Qos1)

CountIn(log, pkt) == Cardinality({j \in 1 .. Len(log) : log[j] = pkt})

\* history: the broker keeps to the protocol when it sends pkt, that is, pkt opens a flow
\* of the broker's own (a publish) or answers a packet written to it and not answered yet
Answers(pkt) ==
    LET answered(kind, qos) == CountIn(rcvd, pkt) < Cnt(wrote, <<kind, qos, pkt.id>>)
    IN CASE pkt.kind = "Publish" -> TRUE
         [] pkt.kind = "SubAck" -> answered("Subscribe", 0)
         [] pkt.kind = "UnSubAck" -> answered("UnSub", 0)
         [] pkt.kind = "PubAck" -> answered("Publish", Qos1)
         [] pkt.kind = "PubRec" -> answered("Publish", Qos2)
         [] pkt.kind = "PubRel" -> answered("PubRec", 0)
         [] pkt.kind = "PubComp" -> answered("PubRel", 0)
         [] OTHER -> FALSE

\* case pkt, more := <-c.netRecvC, and the switch pkt.(type) up to the first blocking call
LogicRecv(pkt) ==
    /\ logicPc = "recv"
    /\ nCalls + nBroker < MaxInputs
    /\ nBroker' = nBroker + 1
    /\ rcvd' = Append(rcvd, pkt)
    /\ conforming' = (conforming /\ Answers(pkt))
    /\ LET ended == {p \in inflight : p.id = pkt.id /\ TerminalAck(p) = pkt.kind}
       IN /\ inflight' = inflight \ ended
          /\ acked' = acked \cup ended
    /\ IF pkt.kind = "Publish"
       THEN /\ logicPc' = "forward"
            /\ logicPkt' = pkt
            /\ UNCHANGED <<usedIDs, persist, logicOut, notified>>
       ELSE IF FreesAtOnce(pkt)
            THEN /\ notified' = Inc(notified, <<Event(pkt), pkt.id>>)
                 /\ usedIDs' = MapDelete(usedIDs, pkt.id)
                 /\ persist' = PersistDelete(persist, sendKey(pkt.id))
                 /\ UNCHANGED <<logicPc, logicPkt, logicOut>>
            ELSE IF Reply(pkt) # NoPkt
                 THEN /\ logicPc' = "send"
                      /\ logicPkt' = pkt
                      /\ logicOut' = Reply(pkt)
                      /\ UNCHANGED <<usedIDs, persist, notified>>
                 ELSE UNCHANGED <<usedIDs, persist, logicPc, logicPkt, logicOut, notified>>
    /\ UNCHANGED <<nextID, sendCh, recvCh, appPc, appPkt, nCalls, pumpPc, pumpPkt,
                   pumpSrc, wrote, delivered, sent>>

\* c.parent.recvCh <- p, then switch p.Qos
LogicForward ==
    /\ logicPc = "forward"
    /\ Len(recvCh) < RecvChanSize
    /\ recvCh' = Append(recvCh, logicPkt)
    /\ IF Reply(logicPkt) = NoPkt
       THEN /\ logicPc' = "recv"
            /\ logicPkt' = NoPkt
            /\ UNCHANGED logicOut
       ELSE /\ logicPc' = "send"
            /\ logicOut' = Reply(logicPkt)
            /\ UNCHANGED logicPkt
    /\ UNCHANGED <<notified, nextID, usedIDs, persist, sendCh, appPc, appPkt, nCalls, pumpPc,
                   pumpPkt, pumpSrc, nBroker, wrote, rcvd, inflight, acked, delivered, sent, conforming>>

\* what a handler does after c.send has returned
LogicPost ==
    /\ logicPc = "post"
    /\ IF logicPkt.kind = "PubComp"
       THEN /\ notified' = Inc(notified, <<Event(logicPkt), logicPkt.id>>)
            /\ usedIDs' = MapDelete(usedIDs, logicPkt.id)
            /\ persist' = PersistDelete(persist, sendKey(logicPkt.id))
       ELSE /\ persist' = PersistStore(persist, recvKey(logicPkt.id), logicPkt)
            /\ UNCHANGED <<usedIDs, notified>>
    /\ logicPc' = "recv"
    /\ logicPkt' = NoPkt
    /\ UNCHANGED <<nextID, sendCh, recvCh, appPc, appPkt, nCalls, pumpPc, pumpPkt,
                   pumpSrc, logicOut, nBroker, wrote, rcvd, inflight, acked, delivered, sent, conforming>>

\* AsyncClient.handleTopicMsg: case pkt, more := <-c.recvCh; c.router.Dispatch(pkt)
handleTopicMsg ==
    /\ recvCh # <<>>
    /\ recvCh' = Tail(recvCh)
    /\ delivered' = Inc(delivered, <<Head(recvCh).qos, Head(recvCh).id>>)
    /\ UNCHANGED <<notified, nextID, usedIDs, persist, sendCh, appPc, appPkt, nCalls, pumpPc,
                   pumpPkt, pumpSrc, logicPc, logicPkt, logicOut, nBroker, wrote, rcvd,
                   inflight, acked, sent, conforming>>

Next ==
    \/ \E qos \in Qos0 .. MaxQosIn, pid \in 0 .. MaxPreset :
           Publish(qos, pid) /\ UNCHANGED <<th, nGenCalls, held, optVars, lifeVars, timeVars>>
    \/ Subscribe /\ UNCHANGED <<th, nGenCalls, held, optVars, lifeVars, timeVars>>
    \/ UnSubscribe /\ UNCHANGED <<th, nGenCalls, held, optVars, lifeVars, timeVars>>
    \/ SendChPut /\ UNCHANGED <<th, nGenCalls, held, optVars, lifeVars, timeVars>>
    \/ PumpTakeSendCh /\ UNCHANGED <<th, nGenCalls, held, optVars, lifeVars, timeVars>>
    \/ PumpTakeLogicSendC /\ UNCHANGED <<th, nGenCalls, held, optVars, lifeVars, timeVars>>
    \/ PumpWrite /\ UNCHANGED <<th, nGenCalls, held, optVars, lifeVars, timeVars>>
    \/ PumpWriteFail /\ UNCHANGED <<th, nGenCalls, held, optVars, lifeVars, timeVars>>
    \/ \E pkt \in BrokerPkts : LogicRecv(pkt) /\ UNCHANGED <<th, nGenCalls, held, optVars, lifeVars, timeVars>>
    \/ LogicForward /\ UNCHANGED <<th, nGenCalls, held, optVars, lifeVars, timeVars>>
    \/ LogicPost /\ UNCHANGED <<th, nGenCalls, held, optVars, lifeVars, timeVars>>
    \/ handleTopicMsg /\ UNCHANGED <<th, nGenCalls, held, optVars, lifeVars, timeVars>>

(***************************************************************************)
(* Initial state: newIDGenerator, NewClient, newClientConn.                *)
(***************************************************************************)
InitSession ==
    /\ nextID = 0
    /\ usedIDs = <<>>
    /\ th = [t \in Threads |-> IdleThread]
    /\ nGenCalls = 0
    /\ held = <<>>
    /\ persist = <<>>
    /\ sendCh = <<>>
    /\ recvCh = <<>>
    /\ appPc = "idle"
    /\ appPkt = NoPkt
    /\ nCalls = 0
    /\ pumpPc = "select"
    /\ pumpPkt = NoPkt
    /\ pumpSrc = "none"
    /\ logicPc = "recv"
    /\ logicPkt = NoPkt
    /\ logicOut = NoPkt
    /\ nBroker = 0
    /\ wrote = <<>>
    /\ rcvd = <<>>
    /\ inflight = {}
    /\ acked = {}
    /\ delivered = <<>>
    /\ sent = <<>>
    /\ notified = <<>>
    /\ conforming = TRUE

\* the options of defaultClient, scaled
InitOptions ==
    /\ firstDelay = MaxFirstDelay
    /\ backOffFactor = MaxFactor
    /\ maxDelay = MaxMaxDelay
    /\ servers = Servers
    /\ keepalive = 4 * MaxKeepalive

\* a client on which Connect has not been called yet
InitLife ==
    /\ clientCtx = "live"
    /\ workers = 0
    /\ connected = FALSE
    /\ waitPc = "none"
    /\ destroyPc = "none"
    /\ topicPc = "none"
    /\ msgPc = "none"
    /\ supPc = [s \in Servers |-> "none"]
    /\ nfail = [s \in Servers |-> 0]
    /\ delay = [s \in Servers |-> 0]
    /\ sessCtx = [s \in Servers |-> "none"]
    /\ connOpen = [s \in Servers |-> FALSE]
    /\ sendPc = [s \in Servers |-> "none"]
    /\ sendPkt = [s \in Servers |-> NoPkt]
    /\ recvPc = [s \in Servers |-> "none"]
    /\ recvPkt = [s \in Servers |-> NoPkt]
    /\ netRecvC = [s \in Servers |-> "open"]
    /\ keepaliveC = [s \in Servers |-> "open"]
    /\ supPkt = [s \in Servers |-> NoPkt]
    /\ kaPc = [s \in Servers |-> "none"]
    /\ nEnv = 0
    /\ events = <<>>
    /\ connFirst = [s \in Servers |-> NoPkt]
    /\ connResult = [s \in Servers |-> <<>>]
    /\ waitRet = "none"
    /\ forced = FALSE
    /\ disWritten = FALSE
    /\ sendExit = [s \in Servers |-> "none"]
    /\ recvExit = [s \in Servers |-> "none"]

\* no keepalive goroutine is running: no ticker, no timer
InitTime ==
    /\ now = 0
    /\ tickerAt = [s \in Servers |-> 0]
    /\ timeoutTimerAt = [s \in Servers |-> 0]
    /\ pingAt = [s \in Servers |-> 0]

Init == InitSession /\ InitOptions /\ InitLife /\ InitTime

SpecIdGen == Init /\ [][NextIdGen]_vars

Spec == Init /\ [][Next]_vars

(***************************************************************************)
(* Claims about the allocator (SpecIdGen).                                 *)
(***************************************************************************)
\* getExtra(id) returns (extra, true)
Maps(id, extra) == getExtra(id)[2] /\ getExtra(id)[1] = extra

\* C1 (as claimed): when next is about to return a nonzero id and no free ran during
\* the call, the side-table maps that id to the extra of this call.
C1_ReturnedIdMapsToExtra ==
    \A t \in Threads :
        (th[t].pc = "ret" /\ th[t].ret # 0 /\ ~th[t].freed)
            => Maps(th[t].ret, th[t].extra)

\* C2 (as claimed): no id is held by two live allocations at once.
C2_LiveIdsDistinct == \A id \in 1 .. MaxUint16 : Cnt(held, id) <= 1

\* C3 (as claimed): with no free during the call, next returns 0 exactly when the id
\* space is exhausted: a 0 is returned only with every id of 1..MaxUint16 held by
\* another call (this call found no free id to store its extra under), and a call that
\* started on a full table returns 0.
C3_ZeroIffExhausted ==
    \A t \in Threads :
        (th[t].pc = "ret" /\ ~th[t].freed)
            => /\ (th[t].ret = 0 =>
                       \A k \in 1 .. MaxUint16 :
                           k \in DOMAIN usedIDs /\ usedIDs[k] # th[t].extra)
               /\ (th[t].full => th[t].ret = 0)

(***************************************************************************)
(* Claims about one open session (Spec).  Where a statement depends on     *)
(* what the broker sends, it is made for the runs in which the broker      *)
(* keeps to the protocol (conforming); the statements about tracked        *)
(* packets are made for the runs in which every tracked packet got its id  *)
(* from the allocator (NoPreset).                                          *)
(***************************************************************************)
\* history: no QoS>=1 publish came with a PacketID set by the caller
NoPreset == \A p \in inflight \cup acked : p.pre = 0

\* C4 (as claimed): a tracked packet placed on the outbound channel has, until its
\* terminal ack is received, exactly one side-table entry, under its own id; once the
\* logic loop has handled the terminal ack that entry is gone.
C4_InFlightHasItsEntry ==
    (conforming /\ NoPreset) =>
        /\ \A p \in inflight :
               /\ Maps(p.id, Origin(p))
               /\ \A k \in DOMAIN usedIDs : usedIDs[k] = Origin(p) => k = p.id
        /\ \A p \in acked : logicPc = "recv" => ~Maps(p.id, Origin(p))

\* C5 (as claimed): a publish on the outbound channel has qos in 0..2 and has
\* packet id 0 exactly when its qos is 0.
C5_PublishIdZeroIffQos0 ==
    \A j \in 1 .. Len(sendCh) :
        (sendCh[j].kind = "Publish" /\ sendCh[j].pre = 0)
            => /\ sendCh[j].qos \in Qos0 .. Qos2
               /\ (sendCh[j].id = 0 <=> sendCh[j].qos = Qos0)

\* C6 (as claimed): no QoS>=1 publish, subscribe or unsubscribe with packet id 0 is on
\* the outbound channel, and no record is stored under S0.
C6_NoPacketWithIdZero ==
    /\ \A j \in 1 .. Len(sendCh) : Tracked(sendCh[j]) => sendCh[j].id # 0
    /\ sendKey(0) \notin DOMAIN persist

\* C7 (as claimed): while an outbound QoS-1 publish with id i is in flight (placed on the
\* outbound channel, PubAck(i) not yet received), S<i> is in the persistence store.
C7_SendRecordKeptInFlight ==
    (conforming /\ NoPreset) =>
        \A p \in inflight :
            (p.kind = "Publish" /\ p.qos = Qos1) => sendKey(p.id) \in DOMAIN persist

\* C8 (as claimed): every PubRel(i) written on the transport follows a PubRec(i) of its
\* own: the PubRel(i) written never outnumber the PubRec(i) received.
C8_PubRelOnlyAfterPubRec ==
    conforming =>
        \A i \in 1 .. MaxUint16 :
            Cnt(wrote, <<"PubRel", 0, i>>) <= CountIn(rcvd, Pkt("PubRec", i))

\* C9 (as claimed): with no API call made at all, once the logic loop has handled a
\* PUBREL(i) that followed a PUBLISH(qos=2, id i), it has sent PUBCOMP(i).
C9_InboundQos2GetsPubComp ==
    \A i \in 1 .. MaxUint16 :
        (/\ conforming
         /\ nCalls = 0
         /\ logicPc = "recv"
         /\ rcvd # <<>>
         /\ rcvd[Len(rcvd)] = Pkt("PubRel", i)
         /\ CountIn(rcvd, PubPkt(Qos2, i)) > 0)
            => Cnt(sent, <<"PubComp", i>>) > 0

\* C10: the PubComp(i) written on the transport never outnumber the PubRel(i) received:
\* each PubComp(i) is written after a PubRel(i) of its own has been received, whatever
\* the broker sends.
C10_PubCompOnlyAfterPubRel ==
    \A i \in 1 .. MaxUint16 :
        Cnt(wrote, <<"PubComp", 0, i>>) <= CountIn(rcvd, Pkt("PubRel", i))

\* C10 witness: an inbound QoS-2 publish with id i was received, then PubRel(i), and
\* PubComp(i) has been written.
C10_Witness ==
    \E i \in 1 .. MaxUint16 :
        /\ Cnt(wrote, <<"PubComp", 0, i>>) > 0
        /\ \E j, k \in 1 .. Len(rcvd) :
               j < k /\ rcvd[j] = PubPkt(Qos2, i) /\ rcvd[k] = Pkt("PubRel", i)

\* C11 (as claimed): an inbound QoS-2 publish with id i is dispatched to the application
\* at most once while its flow is open, that is, as long as no PubRel(i) was received.
C11_InboundQos2DispatchedOnce ==
    \A i \in 1 .. MaxUint16 :
        CountIn(rcvd, Pkt("PubRel", i)) = 0 => Cnt(delivered, <<Qos2, i>>) <= 1
(***************************************************************************)
(* Life cycle of a client (SpecLife).  Every server has one supervisor     *)
(* (connect) and at most one session, whose fibers are handleSend,         *)
(* handleRecv, keepalive and logic (logic runs inside connect).  Handlers  *)
(* are registered, keepalive is enabled (the default).  The transport      *)
(* delivers what the broker sends: a CONNACK with a return code, a QoS-0   *)
(* publish, a PINGRESP, or bytes that do not decode.  A supervisor dials   *)
(* again only when the fibers of its previous session have returned.       *)
(***************************************************************************)
\* the variables of the other specifications that the life cycle leaves alone
dataVars == <<nextID, usedIDs, th, nGenCalls, held, persist, appPc, appPkt, nCalls, pumpPc,
              pumpPkt, pumpSrc, logicPc, logicPkt, logicOut, nBroker, wrote, rcvd, inflight,
              acked, delivered, conforming, sent, notified>>

\* <-c.ctx.Done() is ready
ClientDone == clientCtx = "cancelled"

SessDone(s) == sessCtx[s] = "cancelled"

\* context.WithCancel(parent.ctx): cancelling the parent cancels every child
Propagate(sc) == [s \in Servers |-> IF sc[s] = "live" THEN "cancelled" ELSE sc[s]]

\* c.exit() of a clientConn as it would be if the sessions shared one token
CancelSessionMut(sc, s) ==
    [t \in Servers |-> IF t = s \/ sc[t] = "live" THEN "cancelled" ELSE sc[t]]

\* c.exit() of a clientConn
CancelSession(sc, s) == [sc EXCEPT ![s] = "cancelled"]

\* the child context newClientConn creates
NewSessCtx == IF ClientDone THEN "cancelled" ELSE "live"

\* the packets a broker may put on the transport
LifePkts == {[kind |-> "ConnAck", qos |-> 0, id |-> c, n |-> 0, pre |-> 0] : c \in 0 .. MaxCode}
                \cup {PubPkt(Qos0, 0), Pkt("PingResp", 0)}

\* every fiber registered in the worker set has returned (or was never started)
AllExited ==
    /\ topicPc \in {"none", "exit"}
    /\ msgPc \in {"none", "exit"}
    /\ \A s \in Servers :
           /\ supPc[s] \in {"none", "done"}
           /\ sendPc[s] \in {"none", "exit"}
           /\ recvPc[s] \in {"none", "exit"}
           /\ kaPc[s] \in {"none", "exit"}

\* the fibers of the session of server s have returned
SessionGone(s) ==
    /\ sendPc[s] \in {"none", "exit"}
    /\ recvPc[s] \in {"none", "exit"}
    /\ kaPc[s] \in {"none", "exit"}

\* AsyncClient.Connect: one supervisor per configured server and the two fan-out loops
Connect ==
    /\ ~connected
    /\ connected' = TRUE
    /\ workers' = workers + Cardinality(servers) + 2
    /\ supPc' = [s \in Servers |-> IF s \in servers THEN "loop" ELSE "none"]
    /\ topicPc' = "run"
    /\ msgPc' = "run"
    /\ UNCHANGED <<dataVars, optVars, clientCtx, waitPc, destroyPc, nfail, delay, sessCtx,
                  connOpen, sendPc, sendPkt, recvPc, recvPkt, netRecvC, keepaliveC,
                  supPkt, kaPc, nEnv, events, connFirst, connResult, waitRet, forced,
                  disWritten, sendExit, recvExit, sendCh, recvCh>>

\* AsyncClient.Destroy(true): c.exit()
DestroyForce ==
    /\ destroyPc = "none"
    /\ nEnv < MaxEnv
    /\ nEnv' = nEnv + 1
    /\ clientCtx' = "cancelled"
    /\ sessCtx' = Propagate(sessCtx)
    /\ forced' = TRUE
    /\ destroyPc' = "done"
    /\ UNCHANGED <<dataVars, optVars, workers, connected, waitPc, topicPc, msgPc, supPc,
                  nfail, delay, connOpen, sendPc, sendPkt, recvPc, recvPkt, netRecvC,
                  keepaliveC, supPkt, kaPc, events, connFirst, connResult, waitRet,
                  disWritten, sendExit, recvExit, sendCh, recvCh>>

\* Destroy(false) as it would be if it cancelled the client token at once
DestroyGracefulMut ==
    /\ destroyPc = "none"
    /\ nEnv < MaxEnv
    /\ nEnv' = nEnv + 1
    /\ clientCtx' = "cancelled"
    /\ sessCtx' = Propagate(sessCtx)
    /\ destroyPc' = "enqueue"
    /\ UNCHANGED <<dataVars, optVars, workers, connected, waitPc, topicPc, msgPc, supPc,
                  nfail, delay, connOpen, sendPc, sendPkt, recvPc, recvPkt, netRecvC,
                  keepaliveC, supPkt, kaPc, events, connFirst, connResult, waitRet,
                  forced, disWritten, sendExit, recvExit, sendCh, recvCh>>

\* AsyncClient.Destroy(false), up to c.sendCh <- &DisConnPacket{}
DestroyGraceful ==
    /\ destroyPc = "none"
    /\ nEnv < MaxEnv
    /\ nEnv' = nEnv + 1
    /\ destroyPc' = "enqueue"
    /\ UNCHANGED <<dataVars, optVars, clientCtx, workers, connected, waitPc, topicPc,
                  msgPc, supPc, nfail, delay, sessCtx, connOpen, sendPc, sendPkt, recvPc,
                  recvPkt, netRecvC, keepaliveC, supPkt, kaPc, events, connFirst,
                  connResult, waitRet, forced, disWritten, sendExit, recvExit, sendCh,
                  recvCh>>

\* c.sendCh <- &DisConnPacket{}
DestroyEnqueue ==
    /\ destroyPc = "enqueue"
    /\ Len(sendCh) < SendChanSize
    /\ sendCh' = Append(sendCh, Pkt("DisConn", 0))
    /\ destroyPc' = "done"
    /\ UNCHANGED <<dataVars, optVars, clientCtx, workers, connected, waitPc, topicPc,
                  msgPc, supPc, nfail, delay, sessCtx, connOpen, sendPc, sendPkt, recvPc,
                  recvPkt, netRecvC, keepaliveC, supPkt, kaPc, nEnv, events, connFirst,
                  connResult, waitRet, forced, disWritten, sendExit, recvExit, recvCh>>

\* AsyncClient.Wait: if c.isClosing() { return }; c.workers.Wait()
WaitCall ==
    /\ waitPc = "none"
    /\ nEnv < MaxEnv
    /\ nEnv' = nEnv + 1
    /\ waitPc' = IF ClientDone \/ workers = 0 THEN "returned" ELSE "blocked"
    /\ waitRet' = IF ClientDone \/ workers = 0
                  THEN (IF AllExited THEN "clean" ELSE "dirty")
                  ELSE waitRet
    /\ UNCHANGED <<dataVars, optVars, clientCtx, workers, connected, destroyPc, topicPc,
                  msgPc, supPc, nfail, delay, sessCtx, connOpen, sendPc, sendPkt, recvPc,
                  recvPkt, netRecvC, keepaliveC, supPkt, kaPc, events, connFirst,
                  connResult, forced, disWritten, sendExit, recvExit, sendCh, recvCh>>

\* c.workers.Wait() returns: the counter is zero
WaitReturn ==
    /\ waitPc = "blocked"
    /\ workers = 0
    /\ waitPc' = "returned"
    /\ waitRet' = IF AllExited THEN "clean" ELSE "dirty"
    /\ UNCHANGED <<dataVars, optVars, clientCtx, workers, connected, destroyPc, topicPc,
                  msgPc, supPc, nfail, delay, sessCtx, connOpen, sendPc, sendPkt, recvPc,
                  recvPkt, netRecvC, keepaliveC, supPkt, kaPc, nEnv, events, connFirst,
                  connResult, forced, disWritten, sendExit, recvExit, sendCh, recvCh>>

\* AsyncClient.Publish of one QoS-0 packet, when c.sendCh has room
PublishQos0 ==
    /\ ~ClientDone
    /\ nEnv < MaxEnv
    /\ nEnv' = nEnv + 1
    /\ Len(sendCh) < SendChanSize
    /\ sendCh' = Append(sendCh, PubPkt(Qos0, 0))
    /\ UNCHANGED <<dataVars, optVars, clientCtx, workers, connected, waitPc, destroyPc,
                  topicPc, msgPc, supPc, nfail, delay, sessCtx, connOpen, sendPc,
                  sendPkt, recvPc, recvPkt, netRecvC, keepaliveC, supPkt, kaPc, events,
                  connFirst, connResult, waitRet, forced, disWritten, sendExit, recvExit,
                  recvCh>>
(***************************************************************************)
(* connect: the supervisor of one server.                                  *)
(***************************************************************************)
RECURSIVE Pow(_, _)
\* math.Pow(b, e) for an integer exponent e >= 0
Pow(b, e) == IF e = 0 THEN 1 ELSE b * Pow(b, e - 1)

\* float64(c.options.firstDelay) * math.Pow(c.options.backOffFactor, float64(nfail-1))
FloatDelay(n) == firstDelay * Pow(backOffFactor, n - 1)

\* time.Duration(f): the value when it fits; when it does not, the result depends on the
\* implementation (the smallest Duration on amd64, the largest on arm64)
DurationOf(f) == IF f <= MaxDuration THEN {f} ELSE {MinDuration, MaxDuration}

\* if delay > c.options.maxDelay { delay = c.options.maxDelay }
Clamp(d) == IF d > maxDelay THEN maxDelay ELSE d

\* waitForConnAck and the code connect passes to the ConnHandler
AckOk(pkt) == pkt.kind = "ConnAck" /\ pkt.id = CodeSuccess

AckCode(pkt) == IF pkt.kind = "ConnAck" THEN pkt.id ELSE MaxUint8

AckErr(pkt) ==
    IF pkt.kind # "ConnAck" THEN "decode" ELSE IF pkt.id # CodeSuccess THEN "connack" ELSE "nil"

\* for !c.isClosing(): the client token is cancelled, connect returns
SupExit(s) ==
    /\ supPc[s] = "loop"
    /\ ClientDone
    /\ supPc' = [supPc EXCEPT ![s] = "done"]
    /\ workers' = workers - 1
    /\ UNCHANGED <<dataVars, optVars, clientCtx, connected, waitPc, destroyPc, topicPc,
                  msgPc, nfail, delay, sessCtx, connOpen, sendPc, sendPkt, recvPc,
                  recvPkt, netRecvC, keepaliveC, supPkt, kaPc, nEnv, events, connFirst,
                  connResult, waitRet, forced, disWritten, sendExit, recvExit, sendCh,
                  recvCh>>

\* tryConnect: the dial succeeds (the client token may have been cancelled since the test
\* of the loop); newClientConn, go handleSend, go handleRecv
SupDial(s) ==
    /\ supPc[s] = "loop"
    /\ SessionGone(s)
    /\ sessCtx' = [sessCtx EXCEPT ![s] = NewSessCtx]
    /\ connOpen' = [connOpen EXCEPT ![s] = TRUE]
    /\ netRecvC' = [netRecvC EXCEPT ![s] = "open"]
    /\ keepaliveC' = [keepaliveC EXCEPT ![s] = "open"]
    /\ workers' = workers + 2
    /\ sendPc' = [sendPc EXCEPT ![s] = "select"]
    /\ recvPc' = [recvPc EXCEPT ![s] = "top"]
    /\ kaPc' = [kaPc EXCEPT ![s] = "none"]
    /\ sendExit' = [sendExit EXCEPT ![s] = "none"]
    /\ recvExit' = [recvExit EXCEPT ![s] = "none"]
    /\ connFirst' = [connFirst EXCEPT ![s] = NoPkt]
    /\ connResult' = [connResult EXCEPT ![s] = <<>>]
    /\ supPc' = [supPc EXCEPT ![s] = "sendConn"]
    /\ UNCHANGED <<dataVars, optVars, clientCtx, connected, waitPc, destroyPc, topicPc,
                  msgPc, nfail, delay, sendPkt, recvPkt, supPkt, nEnv, events, waitRet,
                  forced, disWritten, sendCh, recvCh>>

\* tryConnect: dialer.DialContext returns an error
SupDialFail(s) ==
    /\ supPc[s] = "loop"
    /\ ~ClientDone
    /\ nEnv < MaxEnv
    /\ nEnv' = nEnv + 1
    /\ nfail' = [nfail EXCEPT ![s] = @ + 1]
    /\ connResult' = [connResult EXCEPT ![s] = [code |-> MaxUint8, err |-> "dial"]]
    /\ supPc' = [supPc EXCEPT ![s] = "check"]
    /\ UNCHANGED <<dataVars, optVars, clientCtx, workers, connected, waitPc, destroyPc,
                  topicPc, msgPc, delay, sessCtx, connOpen, sendPc, sendPkt, recvPc,
                  recvPkt, netRecvC, keepaliveC, supPkt, kaPc, events, connFirst,
                  waitRet, forced, disWritten, sendExit, recvExit, sendCh, recvCh>>

\* connImpl.send(&ConnPacket{...}): case c.logicSendC <- pkt, taken by handleSend
SupSendConn(s) ==
    /\ supPc[s] = "sendConn"
    /\ sendPc[s] = "select"
    /\ sendPkt' = [sendPkt EXCEPT ![s] = Pkt("Conn", 0)]
    /\ sendPc' = [sendPc EXCEPT ![s] = "write"]
    /\ supPc' = [supPc EXCEPT ![s] = "waitAck"]
    /\ UNCHANGED <<dataVars, optVars, clientCtx, workers, connected, waitPc, destroyPc,
                  topicPc, msgPc, nfail, delay, sessCtx, connOpen, recvPc, recvPkt,
                  netRecvC, keepaliveC, supPkt, kaPc, nEnv, events, connFirst,
                  connResult, waitRet, forced, disWritten, sendExit, recvExit, sendCh,
                  recvCh>>

\* connImpl.send(&ConnPacket{...}): case <-c.ctx.Done()
SupSendConnDone(s) ==
    /\ supPc[s] = "sendConn"
    /\ SessDone(s)
    /\ supPc' = [supPc EXCEPT ![s] = "waitAck"]
    /\ UNCHANGED <<dataVars, optVars, clientCtx, workers, connected, waitPc, destroyPc,
                  topicPc, msgPc, nfail, delay, sessCtx, connOpen, sendPc, sendPkt,
                  recvPc, recvPkt, netRecvC, keepaliveC, supPkt, kaPc, nEnv, events,
                  connFirst, connResult, waitRet, forced, disWritten, sendExit, recvExit,
                  sendCh, recvCh>>

\* waitForConnAck: case <-ctx.Done(), the client token is cancelled
WaitAckCancelled(s) ==
    /\ supPc[s] = "waitAck"
    /\ ClientDone
    /\ sessCtx' = CancelSession(sessCtx, s)
    /\ connOpen' = [connOpen EXCEPT ![s] = FALSE]
    /\ nfail' = [nfail EXCEPT ![s] = @ + 1]
    /\ connResult' = [connResult EXCEPT ![s] = [code |-> MaxUint8, err |-> "ctx"]]
    /\ supPc' = [supPc EXCEPT ![s] = "check"]
    /\ UNCHANGED <<dataVars, optVars, clientCtx, workers, connected, waitPc, destroyPc,
                  topicPc, msgPc, delay, sendPc, sendPkt, recvPc, recvPkt, netRecvC,
                  keepaliveC, supPkt, kaPc, nEnv, events, connFirst, waitRet, forced,
                  disWritten, sendExit, recvExit, sendCh, recvCh>>

\* waitForConnAck: case <-ctx.Done(), the dial timeout has passed
WaitAckTimeout(s) ==
    /\ supPc[s] = "waitAck"
    /\ nEnv < MaxEnv
    /\ nEnv' = nEnv + 1
    /\ sessCtx' = CancelSession(sessCtx, s)
    /\ connOpen' = [connOpen EXCEPT ![s] = FALSE]
    /\ nfail' = [nfail EXCEPT ![s] = @ + 1]
    /\ connResult' = [connResult EXCEPT ![s] = [code |-> MaxUint8, err |-> "ctx"]]
    /\ supPc' = [supPc EXCEPT ![s] = "check"]
    /\ UNCHANGED <<dataVars, optVars, clientCtx, workers, connected, waitPc, destroyPc,
                  topicPc, msgPc, delay, sendPc, sendPkt, recvPc, recvPkt, netRecvC,
                  keepaliveC, supPkt, kaPc, events, connFirst, waitRet, forced,
                  disWritten, sendExit, recvExit, sendCh, recvCh>>

\* waitForConnAck: case pkt, more := <-c.netRecvC with !more
WaitAckClosed(s) ==
    /\ supPc[s] = "waitAck"
    /\ netRecvC[s] = "closed"
    /\ sessCtx' = CancelSession(sessCtx, s)
    /\ connOpen' = [connOpen EXCEPT ![s] = FALSE]
    /\ nfail' = [nfail EXCEPT ![s] = @ + 1]
    /\ connResult' = [connResult EXCEPT ![s] = [code |-> MaxUint8, err |-> "decode"]]
    /\ supPc' = [supPc EXCEPT ![s] = "check"]
    /\ UNCHANGED <<dataVars, optVars, clientCtx, workers, connected, waitPc, destroyPc,
                  topicPc, msgPc, delay, sendPc, sendPkt, recvPc, recvPkt, netRecvC,
                  keepaliveC, supPkt, kaPc, nEnv, events, connFirst, waitRet, forced,
                  disWritten, sendExit, recvExit, sendCh, recvCh>>

\* waitForConnAck: case pkt, more := <-c.netRecvC, handed over by handleRecv; then the
\* branch of connect for its result, up to connImpl.logic() starting keepalive
WaitAckPkt(s) ==
    /\ supPc[s] = "waitAck"
    /\ recvPc[s] = "fwd"
    /\ recvPkt[s].kind # "PingResp"
    /\ recvPc' = [recvPc EXCEPT ![s] = "top"]
    /\ recvPkt' = [recvPkt EXCEPT ![s] = NoPkt]
    /\ connResult' = [connResult EXCEPT
                         ![s] = [code |-> AckCode(recvPkt[s]), err |-> AckErr(recvPkt[s])]]
    /\ nfail' = [nfail EXCEPT ![s] = IF AckOk(recvPkt[s]) THEN 0 ELSE @ + 1]
    /\ sessCtx' = IF AckOk(recvPkt[s]) THEN sessCtx ELSE CancelSession(sessCtx, s)
    /\ connOpen' = [connOpen EXCEPT ![s] = AckOk(recvPkt[s])]
    /\ workers' = IF AckOk(recvPkt[s]) THEN workers + 1 ELSE workers
    /\ kaPc' = [kaPc EXCEPT ![s] = IF AckOk(recvPkt[s]) THEN "tick" ELSE @]
    /\ supPc' = [supPc EXCEPT ![s] = IF AckOk(recvPkt[s]) THEN "logic" ELSE "check"]
    /\ UNCHANGED <<dataVars, optVars, clientCtx, connected, waitPc, destroyPc, topicPc,
                  msgPc, delay, sendPc, sendPkt, netRecvC, keepaliveC, supPkt, nEnv,
                  events, connFirst, waitRet, forced, disWritten, sendExit, recvExit,
                  sendCh, recvCh>>

\* logic: case <-c.ctx.Done(): return, with the deferred c.conn.Close()
SupLogicDone(s) ==
    /\ supPc[s] = "logic"
    /\ SessDone(s)
    /\ connOpen' = [connOpen EXCEPT ![s] = FALSE]
    /\ supPc' = [supPc EXCEPT ![s] = "check"]
    /\ UNCHANGED <<dataVars, optVars, clientCtx, workers, connected, waitPc, destroyPc,
                  topicPc, msgPc, nfail, delay, sessCtx, sendPc, sendPkt, recvPc,
                  recvPkt, netRecvC, keepaliveC, supPkt, kaPc, nEnv, events, connFirst,
                  connResult, waitRet, forced, disWritten, sendExit, recvExit, sendCh,
                  recvCh>>

\* logic: case pkt, more := <-c.netRecvC with !more: return, c.conn.Close()
SupLogicClosed(s) ==
    /\ supPc[s] = "logic"
    /\ netRecvC[s] = "closed"
    /\ connOpen' = [connOpen EXCEPT ![s] = FALSE]
    /\ supPc' = [supPc EXCEPT ![s] = "check"]
    /\ UNCHANGED <<dataVars, optVars, clientCtx, workers, connected, waitPc, destroyPc,
                  topicPc, msgPc, nfail, delay, sessCtx, sendPc, sendPkt, recvPc,
                  recvPkt, netRecvC, keepaliveC, supPkt, kaPc, nEnv, events, connFirst,
                  connResult, waitRet, forced, disWritten, sendExit, recvExit, sendCh,
                  recvCh>>

\* logic: case pkt, more := <-c.netRecvC, handed over by handleRecv; a publish is
\* forwarded next, any other packet finds no origin in the side-table
SupLogicRecv(s) ==
    /\ supPc[s] = "logic"
    /\ recvPc[s] = "fwd"
    /\ recvPkt[s].kind # "PingResp"
    /\ recvPc' = [recvPc EXCEPT ![s] = "top"]
    /\ recvPkt' = [recvPkt EXCEPT ![s] = NoPkt]
    /\ supPkt' = [supPkt EXCEPT ![s] = IF recvPkt[s].kind = "Publish" THEN recvPkt[s] ELSE @]
    /\ supPc' = [supPc EXCEPT ![s] = IF recvPkt[s].kind = "Publish" THEN "forward" ELSE @]
    /\ UNCHANGED <<dataVars, optVars, clientCtx, workers, connected, waitPc, destroyPc,
                  topicPc, msgPc, nfail, delay, sessCtx, connOpen, sendPc, sendPkt,
                  netRecvC, keepaliveC, kaPc, nEnv, events, connFirst, connResult,
                  waitRet, forced, disWritten, sendExit, recvExit, sendCh, recvCh>>

\* logic: c.parent.recvCh <- p
SupForward(s) ==
    /\ supPc[s] = "forward"
    /\ Len(recvCh) < RecvChanSize
    /\ recvCh' = Append(recvCh, supPkt[s])
    /\ supPkt' = [supPkt EXCEPT ![s] = NoPkt]
    /\ supPc' = [supPc EXCEPT ![s] = "logic"]
    /\ UNCHANGED <<dataVars, optVars, clientCtx, workers, connected, waitPc, destroyPc,
                  topicPc, msgPc, nfail, delay, sessCtx, connOpen, sendPc, sendPkt,
                  recvPc, recvPkt, netRecvC, keepaliveC, kaPc, nEnv, events, connFirst,
                  connResult, waitRet, forced, disWritten, sendExit, recvExit, sendCh>>

\* if c.isClosing() || !c.options.autoReconnect { return }
SupCheck(s) ==
    /\ supPc[s] = "check"
    /\ supPc' = [supPc EXCEPT ![s] = IF ClientDone \/ ~AutoReconnect THEN "done" ELSE "delay"]
    /\ workers' = IF ClientDone \/ ~AutoReconnect THEN workers - 1 ELSE workers
    /\ UNCHANGED <<dataVars, optVars, clientCtx, connected, waitPc, destroyPc, topicPc,
                  msgPc, nfail, delay, sessCtx, connOpen, sendPc, sendPkt, recvPc,
                  recvPkt, netRecvC, keepaliveC, supPkt, kaPc, nEnv, events, connFirst,
                  connResult, waitRet, forced, disWritten, sendExit, recvExit, sendCh,
                  recvCh>>

\* the reconnect delay, and select { case <-c.ctx.Done(): case <-time.After(delay): }
SupDelay(s) ==
    /\ supPc[s] = "delay"
    /\ \E d \in (IF nfail[s] > 0 THEN DurationOf(FloatDelay(nfail[s])) ELSE {0}) :
           delay' = [delay EXCEPT ![s] = Clamp(d)]
    /\ supPc' = [supPc EXCEPT ![s] = "loop"]
    /\ UNCHANGED <<dataVars, optVars, clientCtx, workers, connected, waitPc, destroyPc,
                  topicPc, msgPc, nfail, sessCtx, connOpen, sendPc, sendPkt, recvPc,
                  recvPkt, netRecvC, keepaliveC, supPkt, kaPc, nEnv, events, connFirst,
                  connResult, waitRet, forced, disWritten, sendExit, recvExit, sendCh,
                  recvCh>>
(***************************************************************************)
(* handleSend: the send pump of a session.                                 *)
(***************************************************************************)
\* case <-c.ctx.Done(): return
SendCtxDone(s) ==
    /\ sendPc[s] = "select"
    /\ SessDone(s)
    /\ sendPc' = [sendPc EXCEPT ![s] = "exit"]
    /\ sendExit' = [sendExit EXCEPT ![s] = "ctx"]
    /\ workers' = workers - 1
    /\ UNCHANGED <<dataVars, optVars, clientCtx, connected, waitPc, destroyPc, topicPc,
                  msgPc, supPc, nfail, delay, sessCtx, connOpen, sendPkt, recvPc,
                  recvPkt, netRecvC, keepaliveC, supPkt, kaPc, nEnv, events, connFirst,
                  connResult, waitRet, forced, disWritten, recvExit, sendCh, recvCh>>

\* case pkt, more := <-c.parent.sendCh
SendTake(s) ==
    /\ sendPc[s] = "select"
    /\ sendCh # <<>>
    /\ sendPkt' = [sendPkt EXCEPT ![s] = Head(sendCh)]
    /\ sendCh' = Tail(sendCh)
    /\ sendPc' = [sendPc EXCEPT ![s] = "write"]
    /\ UNCHANGED <<dataVars, optVars, clientCtx, workers, connected, waitPc, destroyPc,
                  topicPc, msgPc, supPc, nfail, delay, sessCtx, connOpen, recvPc,
                  recvPkt, netRecvC, keepaliveC, supPkt, kaPc, nEnv, events, connFirst,
                  connResult, waitRet, forced, disWritten, sendExit, recvExit, recvCh>>

\* pkt.WriteTo and Flush succeed; a written DisConn of sendCh ends the client
\* (c.parent.exit(); return), a written QoS-0 publish is reported (notifyPubMsg)
SendWrite(s) ==
    /\ sendPc[s] = "write"
    /\ connOpen[s]
    /\ sendPkt' = [sendPkt EXCEPT ![s] = NoPkt]
    /\ events' = IF sendPkt[s].kind = "Publish" THEN Inc(events, "pub") ELSE events
    /\ disWritten' = (disWritten \/ sendPkt[s].kind = "DisConn")
    /\ clientCtx' = IF sendPkt[s].kind = "DisConn" THEN "cancelled" ELSE clientCtx
    /\ sessCtx' = IF sendPkt[s].kind = "DisConn" THEN Propagate(sessCtx) ELSE sessCtx
    /\ sendPc' = [sendPc EXCEPT ![s] = IF sendPkt[s].kind = "DisConn" THEN "exit" ELSE "select"]
    /\ sendExit' = [sendExit EXCEPT ![s] = IF sendPkt[s].kind = "DisConn" THEN "disconn" ELSE @]
    /\ workers' = IF sendPkt[s].kind = "DisConn" THEN workers - 1 ELSE workers
    /\ UNCHANGED <<dataVars, optVars, connected, waitPc, destroyPc, topicPc, msgPc, supPc,
                  nfail, delay, connOpen, recvPc, recvPkt, netRecvC, keepaliveC, supPkt,
                  kaPc, nEnv, connFirst, connResult, waitRet, forced, recvExit, sendCh,
                  recvCh>>

\* pkt.WriteTo or Flush returns an error on an open transport: log and return
SendWriteFail(s) ==
    /\ sendPc[s] = "write"
    /\ connOpen[s]
    /\ nEnv < MaxEnv
    /\ nEnv' = nEnv + 1
    /\ sendPkt' = [sendPkt EXCEPT ![s] = NoPkt]
    /\ sendPc' = [sendPc EXCEPT ![s] = "exit"]
    /\ sendExit' = [sendExit EXCEPT ![s] = "werr"]
    /\ workers' = workers - 1
    /\ UNCHANGED <<dataVars, optVars, clientCtx, connected, waitPc, destroyPc, topicPc,
                  msgPc, supPc, nfail, delay, sessCtx, connOpen, recvPc, recvPkt,
                  netRecvC, keepaliveC, supPkt, kaPc, events, connFirst, connResult,
                  waitRet, forced, disWritten, recvExit, sendCh, recvCh>>

\* pkt.WriteTo or Flush on a transport the client has closed: log and return
SendWriteClosed(s) ==
    /\ sendPc[s] = "write"
    /\ ~connOpen[s]
    /\ sendPkt' = [sendPkt EXCEPT ![s] = NoPkt]
    /\ sendPc' = [sendPc EXCEPT ![s] = "exit"]
    /\ sendExit' = [sendExit EXCEPT ![s] = "werr"]
    /\ workers' = workers - 1
    /\ UNCHANGED <<dataVars, optVars, clientCtx, connected, waitPc, destroyPc, topicPc,
                  msgPc, supPc, nfail, delay, sessCtx, connOpen, recvPc, recvPkt,
                  netRecvC, keepaliveC, supPkt, kaPc, nEnv, events, connFirst,
                  connResult, waitRet, forced, disWritten, recvExit, sendCh, recvCh>>

(***************************************************************************)
(* handleRecv: the receive pump of a session.                              *)
(***************************************************************************)
\* select { case <-c.ctx.Done(): return, with the deferred close of both channels
RecvCtxDone(s) ==
    /\ recvPc[s] = "top"
    /\ SessDone(s)
    /\ recvExit' = [recvExit EXCEPT ![s] = "ctx"]
    /\ recvPc' = [recvPc EXCEPT ![s] = "exit"]
    /\ netRecvC' = [netRecvC EXCEPT ![s] = "closed"]
    /\ keepaliveC' = [keepaliveC EXCEPT ![s] = "closed"]
    /\ workers' = workers - 1
    /\ UNCHANGED <<dataVars, optVars, clientCtx, connected, waitPc, destroyPc, topicPc,
                  msgPc, supPc, nfail, delay, sessCtx, connOpen, sendPc, sendPkt,
                  recvPkt, supPkt, kaPc, nEnv, events, connFirst, connResult, waitRet,
                  forced, disWritten, sendExit, sendCh, recvCh>>

\* select { default: Decode is entered
RecvTop(s) ==
    /\ recvPc[s] = "top"
    /\ ~SessDone(s)
    /\ recvPc' = [recvPc EXCEPT ![s] = "decode"]
    /\ UNCHANGED <<dataVars, optVars, clientCtx, workers, connected, waitPc, destroyPc,
                  topicPc, msgPc, supPc, nfail, delay, sessCtx, connOpen, sendPc,
                  sendPkt, recvPkt, netRecvC, keepaliveC, supPkt, kaPc, nEnv, events,
                  connFirst, connResult, waitRet, forced, disWritten, sendExit, recvExit,
                  sendCh, recvCh>>

\* Decode returns a packet; it is offered on keepaliveC (PingResp) or netRecvC
RecvDecode(s, pkt) ==
    /\ recvPc[s] = "decode"
    /\ connOpen[s]
    /\ nEnv < MaxEnv
    /\ nEnv' = nEnv + 1
    /\ recvPkt' = [recvPkt EXCEPT ![s] = pkt]
    /\ connFirst' = [connFirst EXCEPT ![s] = IF @ = NoPkt THEN pkt ELSE @]
    /\ recvPc' = [recvPc EXCEPT ![s] = "fwd"]
    /\ UNCHANGED <<dataVars, optVars, clientCtx, workers, connected, waitPc, destroyPc,
                  topicPc, msgPc, supPc, nfail, delay, sessCtx, connOpen, sendPc,
                  sendPkt, netRecvC, keepaliveC, supPkt, kaPc, events, connResult,
                  waitRet, forced, disWritten, sendExit, recvExit, sendCh, recvCh>>

\* Decode returns an error for bytes that do not decode: c.exit(); return
RecvDecodeFail(s) ==
    /\ recvPc[s] = "decode"
    /\ connOpen[s]
    /\ nEnv < MaxEnv
    /\ nEnv' = nEnv + 1
    /\ sessCtx' = CancelSession(sessCtx, s)
    /\ recvExit' = [recvExit EXCEPT ![s] = "derr"]
    /\ recvPc' = [recvPc EXCEPT ![s] = "exit"]
    /\ netRecvC' = [netRecvC EXCEPT ![s] = "closed"]
    /\ keepaliveC' = [keepaliveC EXCEPT ![s] = "closed"]
    /\ workers' = workers - 1
    /\ UNCHANGED <<dataVars, optVars, clientCtx, connected, waitPc, destroyPc, topicPc,
                  msgPc, supPc, nfail, delay, connOpen, sendPc, sendPkt, recvPkt, supPkt,
                  kaPc, events, connFirst, connResult, waitRet, forced, disWritten,
                  sendExit, sendCh, recvCh>>

\* Decode returns an error because the client closed the transport: c.exit(); return
RecvDecodeClosed(s) ==
    /\ recvPc[s] = "decode"
    /\ ~connOpen[s]
    /\ sessCtx' = CancelSession(sessCtx, s)
    /\ recvExit' = [recvExit EXCEPT ![s] = "closed"]
    /\ recvPc' = [recvPc EXCEPT ![s] = "exit"]
    /\ netRecvC' = [netRecvC EXCEPT ![s] = "closed"]
    /\ keepaliveC' = [keepaliveC EXCEPT ![s] = "closed"]
    /\ workers' = workers - 1
    /\ UNCHANGED <<dataVars, optVars, clientCtx, connected, waitPc, destroyPc, topicPc,
                  msgPc, supPc, nfail, delay, connOpen, sendPc, sendPkt, recvPkt, supPkt,
                  kaPc, nEnv, events, connFirst, connResult, waitRet, forced, disWritten,
                  sendExit, sendCh, recvCh>>

(***************************************************************************)
(* keepalive: the watchdog of a session.                                   *)
(***************************************************************************)
\* case <-c.ctx.Done(): return, in the outer or in the inner select
KaCtxDone(s) ==
    /\ kaPc[s] \in {"tick", "wait"}
    /\ SessDone(s)
    /\ kaPc' = [kaPc EXCEPT ![s] = "exit"]
    /\ workers' = workers - 1
    /\ UNCHANGED <<dataVars, optVars, clientCtx, connected, waitPc, destroyPc, topicPc,
                  msgPc, supPc, nfail, delay, sessCtx, connOpen, sendPc, sendPkt, recvPc,
                  recvPkt, netRecvC, keepaliveC, supPkt, nEnv, events, connFirst,
                  connResult, waitRet, forced, disWritten, sendExit, recvExit, sendCh,
                  recvCh>>

\* case <-t.C: c.send(PingReqPacket) with case c.logicSendC <- pkt, taken by handleSend
KaSend(s) ==
    /\ kaPc[s] = "tick"
    /\ sendPc[s] = "select"
    /\ sendPkt' = [sendPkt EXCEPT ![s] = Pkt("PingReq", 0)]
    /\ sendPc' = [sendPc EXCEPT ![s] = "write"]
    /\ kaPc' = [kaPc EXCEPT ![s] = "wait"]
    /\ UNCHANGED <<dataVars, optVars, clientCtx, workers, connected, waitPc, destroyPc,
                  topicPc, msgPc, supPc, nfail, delay, sessCtx, connOpen, recvPc,
                  recvPkt, netRecvC, keepaliveC, supPkt, nEnv, events, connFirst,
                  connResult, waitRet, forced, disWritten, sendExit, recvExit, sendCh,
                  recvCh>>

\* case _, more := <-c.keepaliveC, handed over by handleRecv: timeoutTimer.Reset
KaPong(s) ==
    /\ kaPc[s] = "wait"
    /\ recvPc[s] = "fwd"
    /\ recvPkt[s].kind = "PingResp"
    /\ recvPc' = [recvPc EXCEPT ![s] = "top"]
    /\ recvPkt' = [recvPkt EXCEPT ![s] = NoPkt]
    /\ kaPc' = [kaPc EXCEPT ![s] = "tick"]
    /\ UNCHANGED <<dataVars, optVars, clientCtx, workers, connected, waitPc, destroyPc,
                  topicPc, msgPc, supPc, nfail, delay, sessCtx, connOpen, sendPc,
                  sendPkt, netRecvC, keepaliveC, supPkt, nEnv, events, connFirst,
                  connResult, waitRet, forced, disWritten, sendExit, recvExit, sendCh,
                  recvCh>>

\* case _, more := <-c.keepaliveC with !more: return
KaClosed(s) ==
    /\ kaPc[s] = "wait"
    /\ keepaliveC[s] = "closed"
    /\ kaPc' = [kaPc EXCEPT ![s] = "exit"]
    /\ workers' = workers - 1
    /\ UNCHANGED <<dataVars, optVars, clientCtx, connected, waitPc, destroyPc, topicPc,
                  msgPc, supPc, nfail, delay, sessCtx, connOpen, sendPc, sendPkt, recvPc,
                  recvPkt, netRecvC, keepaliveC, supPkt, nEnv, events, connFirst,
                  connResult, waitRet, forced, disWritten, sendExit, recvExit, sendCh,
                  recvCh>>

\* case <-timeoutTimer.C: c.exit(); return
KaTimeout(s) ==
    /\ kaPc[s] = "wait"
    /\ sessCtx' = CancelSession(sessCtx, s)
    /\ kaPc' = [kaPc EXCEPT ![s] = "exit"]
    /\ workers' = workers - 1
    /\ UNCHANGED <<dataVars, optVars, clientCtx, connected, waitPc, destroyPc, topicPc,
                  msgPc, supPc, nfail, delay, connOpen, sendPc, sendPkt, recvPc, recvPkt,
                  netRecvC, keepaliveC, supPkt, nEnv, events, connFirst, connResult,
                  waitRet, forced, disWritten, sendExit, recvExit, sendCh, recvCh>>

(***************************************************************************)
(* The fan-out loops of the client.                                        *)
(***************************************************************************)
\* the variables of an open session other than its channels and the dispatch record
sessData == <<persist, appPc, appPkt, nCalls, pumpPc, pumpPkt, pumpSrc, logicPc, logicPkt,
              logicOut, nBroker, wrote, rcvd, inflight, acked, conforming, sent, notified>>

\* handleTopicMsg: case <-c.ctx.Done(): return
TopicCtxDone ==
    /\ topicPc = "run"
    /\ ClientDone
    /\ topicPc' = "exit"
    /\ workers' = workers - 1
    /\ UNCHANGED <<dataVars, optVars, clientCtx, connected, waitPc, destroyPc, msgPc,
                  supPc, nfail, delay, sessCtx, connOpen, sendPc, sendPkt, recvPc,
                  recvPkt, netRecvC, keepaliveC, supPkt, kaPc, nEnv, events, connFirst,
                  connResult, waitRet, forced, disWritten, sendExit, recvExit, sendCh,
                  recvCh>>

\* handleTopicMsg: case pkt, more := <-c.recvCh; c.router.Dispatch(pkt)
TopicDispatch ==
    /\ topicPc = "run"
    /\ recvCh # <<>>
    /\ recvCh' = Tail(recvCh)
    /\ delivered' = Inc(delivered, <<Head(recvCh).qos, Head(recvCh).id>>)
    /\ UNCHANGED <<nextID, usedIDs, th, nGenCalls, held, sessData, optVars, clientCtx,
                  workers, connected, waitPc, destroyPc, topicPc, msgPc, supPc, nfail,
                  delay, sessCtx, connOpen, sendPc, sendPkt, recvPc, recvPkt, netRecvC,
                  keepaliveC, supPkt, kaPc, nEnv, events, connFirst, connResult, waitRet,
                  forced, disWritten, sendExit, recvExit, sendCh>>

\* handleMsg: case <-c.ctx.Done(): return
MsgCtxDone ==
    /\ msgPc = "run"
    /\ ClientDone
    /\ msgPc' = "exit"
    /\ workers' = workers - 1
    /\ UNCHANGED <<dataVars, optVars, clientCtx, connected, waitPc, destroyPc, topicPc,
                  supPc, nfail, delay, sessCtx, connOpen, sendPc, sendPkt, recvPc,
                  recvPkt, netRecvC, keepaliveC, supPkt, kaPc, nEnv, events, connFirst,
                  connResult, waitRet, forced, disWritten, sendExit, recvExit, sendCh,
                  recvCh>>

NextLife ==
    \/ Connect /\ UNCHANGED timeVars
    \/ DestroyForce /\ UNCHANGED timeVars
    \/ DestroyGraceful /\ UNCHANGED timeVars
    \/ DestroyEnqueue /\ UNCHANGED timeVars
    \/ WaitCall /\ UNCHANGED timeVars
    \/ WaitReturn /\ UNCHANGED timeVars
    \/ PublishQos0 /\ UNCHANGED timeVars
    \/ TopicCtxDone /\ UNCHANGED timeVars
    \/ TopicDispatch /\ UNCHANGED timeVars
    \/ MsgCtxDone /\ UNCHANGED timeVars
    \/ \E s \in Servers : SupExit(s) /\ UNCHANGED timeVars
    \/ \E s \in Servers : SupDial(s) /\ UNCHANGED timeVars
    \/ \E s \in Servers : SupDialFail(s) /\ UNCHANGED timeVars
    \/ \E s \in Servers : SupSendConn(s) /\ UNCHANGED timeVars
    \/ \E s \in Servers : SupSendConnDone(s) /\ UNCHANGED timeVars
    \/ \E s \in Servers : WaitAckCancelled(s) /\ UNCHANGED timeVars
    \/ \E s \in Servers : WaitAckTimeout(s) /\ UNCHANGED timeVars
    \/ \E s \in Servers : WaitAckClosed(s) /\ UNCHANGED timeVars
    \/ \E s \in Servers : WaitAckPkt(s) /\ UNCHANGED timeVars
    \/ \E s \in Servers : SupLogicDone(s) /\ UNCHANGED timeVars
    \/ \E s \in Servers : SupLogicClosed(s) /\ UNCHANGED timeVars
    \/ \E s \in Servers : SupLogicRecv(s) /\ UNCHANGED timeVars
    \/ \E s \in Servers : SupForward(s) /\ UNCHANGED timeVars
    \/ \E s \in Servers : SupCheck(s) /\ UNCHANGED timeVars
    \/ \E s \in Servers : SupDelay(s) /\ UNCHANGED timeVars
    \/ \E s \in Servers : SendCtxDone(s) /\ UNCHANGED timeVars
    \/ \E s \in Servers : SendTake(s) /\ UNCHANGED timeVars
    \/ \E s \in Servers : SendWrite(s) /\ UNCHANGED timeVars
    \/ \E s \in Servers : SendWriteFail(s) /\ UNCHANGED timeVars
    \/ \E s \in Servers : SendWriteClosed(s) /\ UNCHANGED timeVars
    \/ \E s \in Servers : RecvCtxDone(s) /\ UNCHANGED timeVars
    \/ \E s \in Servers : RecvTop(s) /\ UNCHANGED timeVars
    \/ \E s \in Servers, pkt \in LifePkts : RecvDecode(s, pkt) /\ UNCHANGED timeVars
    \/ \E s \in Servers : RecvDecodeFail(s) /\ UNCHANGED timeVars
    \/ \E s \in Servers : RecvDecodeClosed(s) /\ UNCHANGED timeVars
    \/ \E s \in Servers : KaCtxDone(s) /\ UNCHANGED timeVars
    \/ \E s \in Servers : KaSend(s) /\ UNCHANGED timeVars
    \/ \E s \in Servers : KaPong(s) /\ UNCHANGED timeVars
    \/ \E s \in Servers : KaClosed(s) /\ UNCHANGED timeVars
    \/ \E s \in Servers : KaTimeout(s) /\ UNCHANGED timeVars

SpecLife == Init /\ [][NextLife]_vars
(***************************************************************************)
(* FairSpecLife: a client configured with one server, under a scheduler    *)
(* that lets every fiber that can take a step take one.  Nothing is        *)
(* assumed of the broker, of the transport failing, of the dial timeout    *)
(* or of the application calling the API.                                  *)
(***************************************************************************)
InitOneServer ==
    /\ InitSession
    /\ firstDelay = MaxFirstDelay
    /\ backOffFactor = MaxFactor
    /\ maxDelay = MaxMaxDelay
    /\ servers = {1}
    /\ keepalive = 4 * MaxKeepalive
    /\ InitLife
    /\ InitTime

\* the steps of connect that need no input
SupStep(s) ==
    \/ SupExit(s)
    \/ SupDial(s)
    \/ SupSendConn(s)
    \/ SupSendConnDone(s)
    \/ WaitAckCancelled(s)
    \/ WaitAckClosed(s)
    \/ WaitAckPkt(s)
    \/ SupLogicDone(s)
    \/ SupLogicClosed(s)
    \/ SupLogicRecv(s)
    \/ SupForward(s)
    \/ SupCheck(s)
    \/ SupDelay(s)

\* the steps of handleSend that need no input; a write on an open transport completes
SendStep(s) == SendCtxDone(s) \/ SendTake(s) \/ SendWrite(s) \/ SendWriteClosed(s)

\* the steps of handleRecv that need no input
RecvStep(s) == RecvCtxDone(s) \/ RecvTop(s) \/ RecvDecodeClosed(s)

\* the steps of keepalive; its ticker and its timeout timer fire
KaStep(s) == KaCtxDone(s) \/ KaSend(s) \/ KaPong(s) \/ KaClosed(s) \/ KaTimeout(s)

TopicStep == TopicCtxDone \/ TopicDispatch

Fairness ==
    /\ WF_vars(TopicStep /\ UNCHANGED timeVars)
    /\ WF_vars(MsgCtxDone /\ UNCHANGED timeVars)
    /\ WF_vars(DestroyEnqueue /\ UNCHANGED timeVars)
    /\ WF_vars(WaitReturn /\ UNCHANGED timeVars)
    /\ \A s \in Servers :
           /\ WF_vars(SupStep(s) /\ UNCHANGED timeVars)
           /\ WF_vars(SendStep(s) /\ UNCHANGED timeVars)
           /\ WF_vars(RecvStep(s) /\ UNCHANGED timeVars)
           /\ WF_vars(KaStep(s) /\ UNCHANGED timeVars)

FairSpecLife == InitOneServer /\ [][NextLife]_vars /\ Fairness

(***************************************************************************)
(* SpecBackoff: the loop of connect for one server with autoReconnect on,  *)
(* an attempt and the session it opens taken as one step, for every        *)
(* choice of the delay options.                                            *)
(***************************************************************************)
InitBackoff ==
    /\ InitSession
    /\ firstDelay \in 1 .. MaxFirstDelay
    /\ backOffFactor \in 1 .. MaxFactor
    /\ maxDelay \in 1 .. MaxMaxDelay
    /\ servers = {1}
    /\ keepalive = 4 * MaxKeepalive
    /\ InitLife
    /\ InitTime

\* tryConnect returns an error: nfail++
AttemptFails(s) ==
    /\ supPc[s] = "loop"
    /\ ~ClientDone
    /\ nfail[s] < MaxFail
    /\ nfail' = [nfail EXCEPT ![s] = @ + 1]
    /\ connResult' = [connResult EXCEPT ![s] = [code |-> MaxUint8, err |-> "dial"]]
    /\ supPc' = [supPc EXCEPT ![s] = "check"]
    /\ UNCHANGED <<dataVars, optVars, clientCtx, workers, connected, waitPc, destroyPc,
                  topicPc, msgPc, delay, sessCtx, connOpen, sendPc, sendPkt, recvPc,
                  recvPkt, netRecvC, keepaliveC, supPkt, kaPc, nEnv, events, connFirst,
                  waitRet, forced, disWritten, sendExit, recvExit, sendCh, recvCh>>

\* tryConnect succeeds: nfail = 0; connImpl.logic() runs and returns
AttemptSucceeds(s) ==
    /\ supPc[s] = "loop"
    /\ ~ClientDone
    /\ nfail' = [nfail EXCEPT ![s] = 0]
    /\ connResult' = [connResult EXCEPT ![s] = [code |-> CodeSuccess, err |-> "nil"]]
    /\ supPc' = [supPc EXCEPT ![s] = "check"]
    /\ UNCHANGED <<dataVars, optVars, clientCtx, workers, connected, waitPc, destroyPc,
                  topicPc, msgPc, delay, sessCtx, connOpen, sendPc, sendPkt, recvPc,
                  recvPkt, netRecvC, keepaliveC, supPkt, kaPc, nEnv, events, connFirst,
                  waitRet, forced, disWritten, sendExit, recvExit, sendCh, recvCh>>

NextBackoff ==
    \/ Connect /\ UNCHANGED timeVars
    \/ DestroyForce /\ UNCHANGED timeVars
    \/ TopicCtxDone /\ UNCHANGED timeVars
    \/ MsgCtxDone /\ UNCHANGED timeVars
    \/ \E s \in Servers : SupExit(s) /\ UNCHANGED timeVars
    \/ \E s \in Servers : AttemptFails(s) /\ UNCHANGED timeVars
    \/ \E s \in Servers : AttemptSucceeds(s) /\ UNCHANGED timeVars
    \/ \E s \in Servers : SupCheck(s) /\ UNCHANGED timeVars
    \/ \E s \in Servers : SupDelay(s) /\ UNCHANGED timeVars

SpecBackoff == InitBackoff /\ [][NextBackoff]_vars

(***************************************************************************)
(* SpecKeepalive: a client configured with one server, with a clock.  The  *)
(* ticker t and the timer timeoutTimer of keepalive are kept as the times  *)
(* they fire at.  Steps take no time; the clock runs while a keepalive     *)
(* goroutine does, and it does not pass a moment at which that goroutine   *)
(* has a tick or a timeout to serve (a scheduler without delays).          *)
(***************************************************************************)
InitKeepalive ==
    /\ InitSession
    /\ firstDelay = MaxFirstDelay
    /\ backOffFactor = MaxFactor
    /\ maxDelay = MaxMaxDelay
    /\ servers = {1}
    /\ keepalive \in {4 * k : k \in 1 .. MaxKeepalive}
    /\ InitLife
    /\ InitTime

\* the period of t: c.parent.options.keepalive * 3 / 4
tickerPeriod == (keepalive * 3) \div 4

\* timeout := time.Duration(float64(c.parent.options.keepalive) * keepaliveFactor)
timeout == (keepalive * KeepaliveFactorNum) \div KeepaliveFactorDen

\* go c.keepalive(): t := time.NewTicker(..), timeoutTimer := time.NewTimer(timeout)
StartKeepalive(s) ==
    /\ IF AckOk(recvPkt[s])
       THEN /\ tickerAt' = [tickerAt EXCEPT ![s] = now + tickerPeriod]
            /\ timeoutTimerAt' = [timeoutTimerAt EXCEPT ![s] = now + timeout]
       ELSE UNCHANGED <<tickerAt, timeoutTimerAt>>
    /\ UNCHANGED <<now, pingAt>>

\* case <-t.C: a tick is there; the ticks t had no room for while this one waited are lost
TickerFires(s) ==
    /\ now >= tickerAt[s]
    /\ tickerAt' = [tickerAt EXCEPT
                       ![s] = @ + tickerPeriod * ((now - @) \div tickerPeriod + 1)]
    /\ pingAt' = [pingAt EXCEPT ![s] = now]
    /\ UNCHANGED <<now, timeoutTimerAt>>

\* timeoutTimer.Reset(timeout); when the timer has expired already its channel is not
\* drained, and it depends on the Go release whether Reset discards the stale value
TimerReset(s) ==
    /\ timeoutTimerAt' \in
           {[timeoutTimerAt EXCEPT ![s] = t] :
                t \in IF now >= timeoutTimerAt[s]
                      THEN {timeoutTimerAt[s], now + timeout}
                      ELSE {now + timeout}}
    /\ UNCHANGED <<now, tickerAt, pingAt>>

\* case <-timeoutTimer.C: the timer has expired
TimerFires(s) ==
    /\ now >= timeoutTimerAt[s]
    /\ UNCHANGED timeVars

\* keepalive of server s has a tick to serve, or a timeout
Due(s) ==
    \/ kaPc[s] = "tick" /\ now >= tickerAt[s] /\ sendPc[s] = "select"
    \/ kaPc[s] = "wait" /\ now >= timeoutTimerAt[s]

\* a second passes
TimePasses ==
    /\ now < MaxTime
    /\ \E s \in servers : kaPc[s] \in {"tick", "wait"}
    /\ \A s \in servers : ~Due(s)
    /\ now' = now + 1
    /\ UNCHANGED <<dataVars, optVars, lifeVars, sendCh, recvCh, tickerAt, timeoutTimerAt,
                   pingAt>>

NextKeepalive ==
    \/ TimePasses
    \/ Connect /\ UNCHANGED timeVars
    \/ DestroyForce /\ UNCHANGED timeVars
    \/ DestroyGraceful /\ UNCHANGED timeVars
    \/ DestroyEnqueue /\ UNCHANGED timeVars
    \/ WaitCall /\ UNCHANGED timeVars
    \/ WaitReturn /\ UNCHANGED timeVars
    \/ PublishQos0 /\ UNCHANGED timeVars
    \/ TopicCtxDone /\ UNCHANGED timeVars
    \/ TopicDispatch /\ UNCHANGED timeVars
    \/ MsgCtxDone /\ UNCHANGED timeVars
    \/ \E s \in Servers : SupExit(s) /\ UNCHANGED timeVars
    \/ \E s \in Servers : SupDial(s) /\ UNCHANGED timeVars
    \/ \E s \in Servers : SupDialFail(s) /\ UNCHANGED timeVars
    \/ \E s \in Servers : SupSendConn(s) /\ UNCHANGED timeVars
    \/ \E s \in Servers : SupSendConnDone(s) /\ UNCHANGED timeVars
    \/ \E s \in Servers : WaitAckCancelled(s) /\ UNCHANGED timeVars
    \/ \E s \in Servers : WaitAckTimeout(s) /\ UNCHANGED timeVars
    \/ \E s \in Servers : WaitAckClosed(s) /\ UNCHANGED timeVars
    \/ \E s \in Servers : SupLogicDone(s) /\ UNCHANGED timeVars
    \/ \E s \in Servers : SupLogicClosed(s) /\ UNCHANGED timeVars
    \/ \E s \in Servers : SupLogicRecv(s) /\ UNCHANGED timeVars
    \/ \E s \in Servers : SupForward(s) /\ UNCHANGED timeVars
    \/ \E s \in Servers : SupCheck(s) /\ UNCHANGED timeVars
    \/ \E s \in Servers : SupDelay(s) /\ UNCHANGED timeVars
    \/ \E s \in Servers : SendCtxDone(s) /\ UNCHANGED timeVars
    \/ \E s \in Servers : SendTake(s) /\ UNCHANGED timeVars
    \/ \E s \in Servers : SendWrite(s) /\ UNCHANGED timeVars
    \/ \E s \in Servers : SendWriteFail(s) /\ UNCHANGED timeVars
    \/ \E s \in Servers : SendWriteClosed(s) /\ UNCHANGED timeVars
    \/ \E s \in Servers : RecvCtxDone(s) /\ UNCHANGED timeVars
    \/ \E s \in Servers : RecvTop(s) /\ UNCHANGED timeVars
    \/ \E s \in Servers, pkt \in LifePkts : RecvDecode(s, pkt) /\ UNCHANGED timeVars
    \/ \E s \in Servers : RecvDecodeFail(s) /\ UNCHANGED timeVars
    \/ \E s \in Servers : RecvDecodeClosed(s) /\ UNCHANGED timeVars
    \/ \E s \in Servers : KaCtxDone(s) /\ UNCHANGED timeVars
    \/ \E s \in Servers : KaClosed(s) /\ UNCHANGED timeVars
    \/ \E s \in Servers : WaitAckPkt(s) /\ StartKeepalive(s)
    \/ \E s \in Servers : KaSend(s) /\ TickerFires(s)
    \/ \E s \in Servers : KaPong(s) /\ TimerReset(s)
    \/ \E s \in Servers : KaTimeout(s) /\ TimerFires(s)

SpecKeepalive == InitKeepalive /\ [][NextKeepalive]_vars
(***************************************************************************)
(* Claims about the life cycle (SpecLife, FairSpecLife, SpecBackoff).      *)
(***************************************************************************)
\* C12 (as claimed): once Destroy(true) was called, every fiber registered in the worker
\* set eventually exits, whatever the broker does.
C12_ForcedDestroyDrains == forced ~> AllExited

\* C13 (as claimed): whenever Wait returns, no fiber of the client is still running.
C13_WaitReturnsDrained == waitPc = "returned" => waitRet = "clean"

\* C14: without Destroy(true), the client token is cancelled only once a send pump has
\* written the DisConn of Destroy(false); until then, and when that write fails, the
\* token stays uncancelled.
C14_GracefulCancelsAfterWrite == (ClientDone /\ ~forced) => disWritten

\* Destroy(false) returned, its DisConn was written and the client token is cancelled
C14_Witness == destroyPc = "done" /\ ~forced /\ disWritten /\ ClientDone

\* what C15 says of the packet p that waitForConnAck gets first, or of a closed channel
AckOutcome(s, p, closed) ==
    IF ~closed /\ p.kind = "ConnAck" /\ p.id = CodeSuccess
    THEN /\ connResult'[s] = [code |-> CodeSuccess, err |-> "nil"]
         /\ nfail'[s] = 0
         /\ supPc'[s] = "logic"
    ELSE /\ connResult'[s] = IF ~closed /\ p.kind = "ConnAck"
                             THEN [code |-> p.id, err |-> "connack"]
                             ELSE [code |-> MaxUint8, err |-> "decode"]
         /\ sessCtx'[s] = "cancelled"
         /\ ~connOpen'[s]

\* C15 (as claimed): the first packet a session decodes while its connect attempt waits is
\* the one the attempt is decided on (it is offered to waitForConnAck), and the attempt
\* ends as stated: success for CONNACK 0, the code c for CONNACK c, a decode error with the
\* code MaxUint8 for any other packet or a closed channel, with the session token
\* cancelled and the transport closed in every failing case.
C15_FirstPacketDecides ==
    /\ [](\A s \in Servers :
              (supPc[s] = "waitAck" /\ recvPc[s] = "fwd") => recvPkt[s].kind # "PingResp")
    /\ [][\A s \in Servers :
              /\ WaitAckPkt(s) => AckOutcome(s, recvPkt[s], FALSE)
              /\ WaitAckClosed(s) => AckOutcome(s, NoPkt, TRUE)]_vars

\* min(max-delay, first-delay x backoff-factor^(n-1)) for n >= 1, and 0 for n = 0
SpecDelay(n) ==
    IF n = 0 THEN 0
    ELSE IF firstDelay * Pow(backOffFactor, n - 1) > maxDelay
         THEN maxDelay
         ELSE firstDelay * Pow(backOffFactor, n - 1)

\* C16 (as claimed): the failure counter is 0 after a successful attempt, and the delay the
\* supervisor has waited when it is back at the top of its loop is the specified function
\* of the counter, which never exceeds maxDelay and never decreases while the counter grows.
C16_BackoffDelay ==
    \A s \in Servers :
        /\ (supPc[s] = "check" /\ connResult[s] # <<>> /\ connResult[s].code = CodeSuccess)
               => nfail[s] = 0
        /\ supPc[s] = "loop"
               => /\ delay[s] = SpecDelay(nfail[s])
                  /\ delay[s] <= maxDelay
                  /\ nfail[s] > 1 => delay[s] >= SpecDelay(nfail[s] - 1)

\* a step in which the session of server s alone is ended
SessionEnds(s) ==
    \/ RecvDecodeFail(s)
    \/ RecvDecodeClosed(s)
    \/ KaTimeout(s)
    \/ WaitAckTimeout(s)
    \/ WaitAckClosed(s)
    \/ WaitAckPkt(s) /\ ~AckOk(recvPkt[s])

\* C17: a cancelled client token leaves no session token live, and a step that cancels the
\* token of one session (decode error, keepalive timeout, failed wait for CONNACK) changes
\* neither the client token nor the token of any other session.
C17_TwoLevelCancellation ==
    /\ [](ClientDone => \A s \in Servers : sessCtx[s] # "live")
    /\ [][\A s \in Servers :
              SessionEnds(s)
                  => /\ sessCtx'[s] = "cancelled"
                     /\ clientCtx' = clientCtx
                     /\ \A t \in Servers \ {s} : sessCtx'[t] = sessCtx[t]]_vars

\* one session was cancelled on its own: the client token and another session are live
C17_Witness ==
    \E s, t \in Servers :
        /\ recvExit[s] = "derr"
        /\ sessCtx[s] = "cancelled"
        /\ sessCtx[t] = "live"
        /\ ~ClientDone

\* a net event is handed to the event fan-out in this step
NetEventEmitted == Cnt(events', "net") > Cnt(events, "net")

\* C18 (as claimed): a failed write or flush of the send pump of a live session emits a
\* net event and cancels the session token, and leaves the client token as it is.
C18_WriteFailureEndsSession ==
    [][\A s \in Servers :
           (SendWriteFail(s) /\ sessCtx[s] = "live")
               => /\ NetEventEmitted
                  /\ sessCtx'[s] = "cancelled"
                  /\ clientCtx' = clientCtx]_vars

\* C19 (as claimed): a failed Decode of the receive pump emits a net event, cancels the
\* session token, closes netRecvC and keepaliveC, and ends the pump.
C19_DecodeFailureEndsSession ==
    [][\A s \in Servers :
           RecvDecodeFail(s)
               => /\ NetEventEmitted
                  /\ sessCtx'[s] = "cancelled"
                  /\ netRecvC'[s] = "closed"
                  /\ keepaliveC'[s] = "closed"
                  /\ recvPc'[s] = "exit"]_vars

\* C20 (as claimed): once the token of a session is cancelled, its send pump, receive
\* pump, keepalive watchdog and logic loop all exit.
C20_SessionFibersExit ==
    \A s \in Servers :
        SessDone(s) ~> (SessionGone(s) /\ supPc[s] \notin {"logic", "forward"})

\* C21 (as claimed): the keepalive watchdog cancels the session token timeout seconds
\* (interval x keepalive-factor) after it sent the ping-request that got no answer, and
\* not earlier; a ping-response received while it waits sets the timer to a full timeout
\* (both on a session whose token is live).
C21_KeepaliveTimeout ==
    [][\A s \in Servers :
           /\ (KaTimeout(s) /\ sessCtx[s] = "live") => now = pingAt[s] + timeout
           /\ (KaPong(s) /\ sessCtx[s] = "live") => timeoutTimerAt'[s] = now + timeout]_vars

\* the acknowledgements the logic loop looks up in the side-table
Acks ==
    {Pkt(k, id) : k \in {"SubAck", "UnSubAck", "PubAck", "PubRec", "PubRel", "PubComp"},
                  id \in 1 .. MaxUint16}

\* the side-table holds, under the id of ack pkt, an origin of the type and the QoS the
\* handler of pkt asks for
Matched(pkt) ==
    /\ pkt.id \in DOMAIN usedIDs
    /\ usedIDs[pkt.id].kind = (CASE pkt.kind = "SubAck" -> "Subscribe"
                                 [] pkt.kind = "UnSubAck" -> "UnSub"
                                 [] OTHER -> "Publish")
    /\ usedIDs[pkt.id].qos = (CASE pkt.kind \in {"SubAck", "UnSubAck"} -> 0
                                [] pkt.kind = "PubAck" -> Qos1
                                [] OTHER -> Qos2)

\* history: the calls of Publish that were given id i by the id generator
Allocations(i) ==
    {p \in inflight \cup acked \cup {appPkt} :
        p.kind = "Publish" /\ p.qos # Qos0 /\ p.pre = 0 /\ p.id = i}

UserPacket(p) == p.kind \in {"Publish", "Subscribe", "UnSub", "DisConn"}

\* connect has got CONNACK 0 for the session of server s and runs its logic loop
Established(s) == supPc[s] \in {"logic", "forward"}

\* C23 (as claimed): a send pump writes a packet of the shared outbound channel only on a
\* session that has received CONNACK 0; so what a session writes before that is its
\* Connect packet alone.
C23_NoUserPacketBeforeConnAck ==
    [][\A s \in Servers :
           (SendWrite(s) /\ UserPacket(sendPkt[s])) => Established(s)]_vars

\* C24 (as claimed): once the logic loop has handled PubComp(i) for an outbound QoS-2
\* publish (its id is free again) and the send pump has written every PubRel(i) the logic
\* loop handed to it, the persistence store holds no record under S<i>.
C24_SendRecordGoneAfterPubComp ==
    (conforming /\ NoPreset) =>
        \A p \in acked :
            (/\ p.kind = "Publish"
             /\ p.qos = Qos2
             /\ logicPc = "recv"
             /\ pumpPc = "select"
             /\ Cnt(wrote, <<"PubRel", 0, p.id>>) = Cnt(sent, <<"PubRel", p.id>>)
             /\ p.id \notin DOMAIN usedIDs)
                => sendKey(p.id) \notin DOMAIN persist

=============================================================================
